---- MODULE Spec2Model ----
(***************************************************************************)
(* Agent coordination and conflict-resolution engine                       *)
(* (backend/app/agents/coordinator.py, conflict_resolver.py,               *)
(* base_agent.py).                                                         *)
(*                                                                         *)
(* The module holds several specifications over one set of variables:      *)
(*   SchedSpec   - AgentCoordinator.get_execution_order, one loop pass     *)
(*                 per step, over every registry and dependency graph      *)
(*   ResolveSpec - ConflictResolver.resolve_all over lists of conflicts    *)
(*   ConvSpec    - AgentCoordinator.check_convergence over coordinator     *)
(*                 states                                                  *)
(*   MergeSpec   - AgentCoordinator.apply_resolutions applied repeatedly   *)
(*   RunSpec     - AgentCoordinator.run, one step per await or loop pass   *)
(* Variables a specification does not use stay at their initial value.     *)
(***************************************************************************)
EXTENDS Integers, Sequences, FiniteSets, TLC

(***************************************************************************)
(* Agent names.  The four concrete agents of the repository register       *)
(* under these names (BaseDesignAgent.__init__ name argument).             *)
(***************************************************************************)
AgentNames == {"architectural", "structural", "mep", "interior"}

\* largest registry explored
MaxAgents == 3

\* longest conflict list handed to resolve_all
MaxConflicts == 2

\* most nodes (scalars, lists, dicts) in a design data or patch tree
MaxNodes == 4

\* most loop passes explored
MaxIterations == 3

\* config.get("max_iterations", 5) (coordinator.py 95)
DefaultMaxIterations == 5

\* config.get("convergence_threshold", 0.95) (coordinator.py 96), in hundredths
DefaultConvergenceThreshold == 95

\* the empty dict
EmptyMap == [k \in {} |-> 0]

VARIABLES
    agents,          \* AgentCoordinator.agents: the registered names
    dependencies,    \* agent.dependencies of each registered agent
    remaining,       \* get_execution_order: local `remaining`
    executed,        \* get_execution_order: local `executed`
    order,           \* get_execution_order: local `order`, a list of waves
    forced,          \* indices of the waves that were forced (line 129)
    sched_warnings,  \* number of logger.warning calls of get_execution_order
    sched_pc,        \* "loop" while the while-loop runs, "done" at return
    rs_conflicts,    \* resolve_all: the argument `conflicts`
    rs_llm,          \* ConflictResolver.llm is not None
    rs_sorted,       \* resolve_all: local `sorted_conflicts`
    rs_next,         \* resolve_all: position of the for loop in rs_sorted
    rs_resolutions,  \* resolve_all: local `resolutions`
    rs_pc,           \* "idle", "loop" inside the for loop, "done" at return
    rs_calls,        \* resolve_all: what the negotiation client did in each pass
    outputs,         \* AgentCoordinator.outputs: agent name -> AgentOutput
    all_conflicts,   \* AgentCoordinator.all_conflicts
    resolved_conflicts,     \* AgentCoordinator.resolved_conflicts
    iteration,              \* AgentCoordinator.iteration
    max_iterations,         \* AgentCoordinator.max_iterations
    convergence_threshold,  \* AgentCoordinator.convergence_threshold, in hundredths
    cv_called,       \* check_convergence() has been called and has returned
    cv_result,       \* what that call returned
    mg_resolutions,  \* apply_resolutions: the argument `resolutions`
    mg_trace,        \* the outputs map before and after each apply_resolutions
    phase,           \* AgentCoordinator.phase
    status,          \* agent.status of each registered agent
    run_pc,          \* position of run(): "idle" when run() is not in use
    wave,            \* run(): index of the current group of execution_order
    tasks,           \* run_parallel: state of each task handed to gather
    new_conflicts,   \* run(): local `new_conflicts`
    resolutions,     \* run(): local `resolutions`
    result,          \* the CoordinationResult run() returned
    run_error,       \* the step in which an exception reached run()'s try block
    wave_errors,      \* agents whose exception was collected by gather
    detections,      \* every detect_conflicts call of run(): outputs read, conflicts returned
    given,           \* per agent run by run(): the dependency data at the time of its call
    ag_name,         \* BaseDesignAgent.name
    ag_auto_optimize,\* config.get("auto_optimize", True)
    ag_status,       \* BaseDesignAgent.status
    ag_pc,           \* position of BaseDesignAgent.run: the phase it awaits
    ag_called,       \* the phase methods run() has called, in order
    ag_decisions,    \* BaseDesignAgent.decisions: the confidences logged
    ag_conflicts,    \* BaseDesignAgent.conflicts
    ag_warnings,     \* number of add_warning calls
    ag_valid,        \* what validate returned: "unknown" before it returns
    ag_design,       \* run(): local `design`
    ag_output,       \* the AgentOutput run() returned, <<>> if none
    ag_error         \* the phase whose exception left run(), or "none"

sched_vars == <<agents, dependencies, remaining, executed, order, forced,
                sched_warnings, sched_pc>>

rs_vars == <<rs_conflicts, rs_llm, rs_sorted, rs_next, rs_resolutions, rs_pc,
             rs_calls>>

co_vars == <<outputs, all_conflicts, resolved_conflicts, iteration,
             max_iterations, convergence_threshold>>

cv_vars == <<cv_called, cv_result>>

mg_vars == <<mg_resolutions, mg_trace>>

run_vars == <<phase, status, run_pc, wave, tasks, new_conflicts, resolutions,
              result, run_error, wave_errors, detections, given>>

ag_vars == <<ag_name, ag_auto_optimize, ag_status, ag_pc, ag_called,
             ag_decisions, ag_conflicts, ag_warnings, ag_valid, ag_design,
             ag_output, ag_error>>

vars == <<sched_vars, rs_vars, co_vars, cv_vars, mg_vars, run_vars, ag_vars>>

\* the resolver is not in use
RsIdle ==
    /\ rs_conflicts = <<>>
    /\ rs_llm = FALSE
    /\ rs_sorted = <<>>
    /\ rs_next = 1
    /\ rs_resolutions = <<>>
    /\ rs_pc = "idle"
    /\ rs_calls = <<>>

\* AgentCoordinator.__init__ (85-98) with the default configuration
CoIdle ==
    /\ outputs = EmptyMap
    /\ all_conflicts = <<>>
    /\ resolved_conflicts = <<>>
    /\ iteration = 0
    /\ max_iterations = DefaultMaxIterations
    /\ convergence_threshold = DefaultConvergenceThreshold

\* check_convergence has not been called
CvIdle ==
    /\ cv_called = FALSE
    /\ cv_result = FALSE

\* apply_resolutions is not being exercised on its own
MgIdle ==
    /\ mg_resolutions = <<>>
    /\ mg_trace = <<>>

\* run() is not in use
RunIdle ==
    /\ phase = "initialization"
    /\ status = EmptyMap
    /\ run_pc = "idle"
    /\ wave = 0
    /\ tasks = EmptyMap
    /\ new_conflicts = <<>>
    /\ resolutions = <<>>
    /\ result = <<>>
    /\ run_error = "none"
    /\ wave_errors = {}
    /\ detections = <<>>
    /\ given = EmptyMap

\* no BaseDesignAgent.run is followed step by step
AgIdle ==
    /\ ag_name = "none"
    /\ ag_auto_optimize = TRUE
    /\ ag_status = "idle"
    /\ ag_pc = "unused"
    /\ ag_called = <<>>
    /\ ag_decisions = <<>>
    /\ ag_conflicts = <<>>
    /\ ag_warnings = 0
    /\ ag_valid = "unknown"
    /\ ag_design = <<>>
    /\ ag_output = <<>>
    /\ ag_error = "none"

\* the scheduler is not in use
SchedIdle ==
    /\ agents = {}
    /\ dependencies = EmptyMap
    /\ remaining = {}
    /\ executed = {}
    /\ order = <<>>
    /\ forced = {}
    /\ sched_warnings = 0
    /\ sched_pc = "idle"

(***************************************************************************)
(* get_execution_order (coordinator.py 105-135)                            *)
(***************************************************************************)

\* a scheduler that takes an agent as soon as ANY of its dependencies ran
ReadyAgentsAnyDep(deps, rem, exe) ==
    {n \in rem : deps[n] = {} \/ deps[n] \cap exe # {}}

\* lines 119-124: the agents of `rem` whose dependencies are all executed
ReadyAgents(deps, rem, exe) == {n \in rem : deps[n] \subseteq exe}

\* a forced pass that takes every remaining agent at once
ForcedChoicesAllRemaining(rem) == {rem}

\* line 129: list(remaining)[:1]; the iteration order of a set is
\* unspecified, so any one remaining agent may be the forced one
ForcedChoices(rem) == {{n} : n \in rem}

\* register_agent (100-103) called for every agent before the run
SchedInit ==
    /\ agents \in {A \in SUBSET AgentNames : Cardinality(A) <= MaxAgents}
    /\ dependencies \in [agents -> SUBSET AgentNames]
    /\ remaining = agents
    /\ executed = {}
    /\ order = <<>>
    /\ forced = {}
    /\ sched_warnings = 0
    /\ sched_pc = IF agents = {} THEN "done" ELSE "loop"
    /\ RsIdle /\ CoIdle /\ CvIdle /\ MgIdle /\ RunIdle /\ AgIdle

\* one pass of the while loop in which some agent is ready (lines 117-133)
ScheduleReady ==
    /\ sched_pc = "loop"
    /\ ReadyAgents(dependencies, remaining, executed) # {}
    /\ LET ready == ReadyAgents(dependencies, remaining, executed) IN
       /\ order' = Append(order, ready)
       /\ executed' = executed \cup ready
       /\ remaining' = remaining \ ready
       /\ sched_pc' = IF remaining \ ready = {} THEN "done" ELSE "loop"
    /\ UNCHANGED <<agents, dependencies, forced, sched_warnings>>
    /\ UNCHANGED <<rs_vars, co_vars, cv_vars, mg_vars, run_vars, ag_vars>>

\* a forced pass that logs nothing
ScheduleForcedSilent ==
    /\ sched_pc = "loop"
    /\ ReadyAgents(dependencies, remaining, executed) = {}
    /\ \E ready \in ForcedChoices(remaining) :
       /\ order' = Append(order, ready)
       /\ executed' = executed \cup ready
       /\ remaining' = remaining \ ready
       /\ sched_pc' = IF remaining \ ready = {} THEN "done" ELSE "loop"
    /\ forced' = forced \cup {Len(order) + 1}
    /\ UNCHANGED <<agents, dependencies, sched_warnings>>
    /\ UNCHANGED <<rs_vars, co_vars, cv_vars, mg_vars, run_vars, ag_vars>>

\* one pass of the while loop in which no agent is ready (lines 126-133)
ScheduleForced ==
    /\ sched_pc = "loop"
    /\ ReadyAgents(dependencies, remaining, executed) = {}
    /\ \E ready \in ForcedChoices(remaining) :
       /\ order' = Append(order, ready)
       /\ executed' = executed \cup ready
       /\ remaining' = remaining \ ready
       /\ sched_pc' = IF remaining \ ready = {} THEN "done" ELSE "loop"
    /\ forced' = forced \cup {Len(order) + 1}
    /\ sched_warnings' = sched_warnings + 1
    /\ UNCHANGED <<agents, dependencies>>
    /\ UNCHANGED <<rs_vars, co_vars, cv_vars, mg_vars, run_vars, ag_vars>>

SchedNext == ScheduleReady \/ ScheduleForced

SchedSpec == SchedInit /\ [][SchedNext]_vars

\* the loop is straight-line code: it keeps running until `remaining` is empty
FairSchedSpec == SchedSpec /\ WF_vars(SchedNext)

(***************************************************************************)
(* JSON-like values: design data, patches and the `changes` of a           *)
(* Resolution.  A value is a scalar, a list or a dict; every value is a    *)
(* record of the same shape so that values of different kinds compare.     *)
(*   t = "s": scalar, payload s      t = "l": list, payload s (its items,  *)
(*   flattened)                      t = "d": dict, payload d (key -> value)*)
(***************************************************************************)
Scalar(x) == [t |-> "s", s |-> x, d |-> EmptyMap]
List(x) == [t |-> "l", s |-> x, d |-> EmptyMap]
Dict(f) == [t |-> "d", s |-> <<>>, d |-> f]
\* isinstance(v, dict)
IsDict(v) == v.t = "d"
\* a dict with the single entry k: v
Entry(k, v) == Dict([x \in {k} |-> v])

(***************************************************************************)
(* Conflicts and resolutions (base_agent.py 32-76)                         *)
(***************************************************************************)
ConflictType == {"spatial", "structural", "functional", "code", "cost",
                 "aesthetic", "mep_clearance"}

ConflictPriority == {"CRITICAL", "HIGH", "MEDIUM", "LOW", "OPTIONAL"}

\* ConflictResolver.PRIORITY_WEIGHTS (conflict_resolver.py 38-44)
PRIORITY_WEIGHTS ==
    [p \in ConflictPriority |->
        CASE p = "CRITICAL" -> 100
          [] p = "HIGH" -> 80
          [] p = "MEDIUM" -> 60
          [] p = "LOW" -> 40
          [] p = "OPTIONAL" -> 20]

\* ConflictResolver.AGENT_HIERARCHY (46-53) read with .get(name, 10)
AGENT_HIERARCHY(name) ==
    CASE name = "structural" -> 1
      [] name = "mep" -> 2
      [] name = "architectural" -> 3
      [] name = "interior" -> 4
      [] name = "landscape" -> 5
      [] OTHER -> 10

\* Resolution(...) (base_agent.py 67-76); confidence in hundredths
Resolution(cid, rtype, changes, by, conf) ==
    [conflict_id |-> cid, resolution_type |-> rtype, changes |-> changes,
     resolved_by |-> by, confidence |-> conf]

\* Python's None where a Resolution is expected
NoResolution == Resolution(<<>>, "None", Scalar(<<>>), "None", 0)

\* _define_strategies (79-124), in list order
Strategy(n, ty, pr, auto, fn) ==
    [name |-> n, conflict_types |-> ty, priority_threshold |-> pr,
     auto_resolve |-> auto, resolution_func |-> fn]

Strategies ==
    << Strategy("structural_safety", {"structural"}, "CRITICAL", TRUE,
                "_resolve_structural_safety"),
       Strategy("code_compliance", {"code"}, "HIGH", TRUE,
                "_resolve_code_compliance"),
       Strategy("spatial_optimization", {"spatial"}, "MEDIUM", FALSE,
                "_resolve_spatial"),
       Strategy("mep_routing", {"mep_clearance"}, "HIGH", TRUE,
                "_resolve_mep_clearance"),
       Strategy("cost_optimization", {"cost"}, "LOW", FALSE, "_resolve_cost"),
       Strategy("aesthetic_balance", {"aesthetic"}, "OPTIONAL", FALSE,
                "_resolve_aesthetic") >>

\* _find_strategy returning None
NoStrategy == Strategy("None", {}, "OPTIONAL", FALSE, "None")

\* a lookup that ignores the priority threshold of a strategy
FindStrategyAnyPriority(c) ==
    LET hits == {i \in 1..Len(Strategies) :
                    c.type \in Strategies[i].conflict_types}
    IN IF hits = {} THEN NoStrategy
       ELSE Strategies[CHOOSE i \in hits : \A j \in hits : i <= j]

\* _find_strategy (180-187): first strategy of the list that names the
\* conflict's type and whose threshold the conflict's priority reaches
FindStrategy(c) ==
    LET hits == {i \in 1..Len(Strategies) :
                    /\ c.type \in Strategies[i].conflict_types
                    /\ PRIORITY_WEIGHTS[c.priority] >=
                          PRIORITY_WEIGHTS[Strategies[i].priority_threshold]}
    IN IF hits = {} THEN NoStrategy
       ELSE Strategies[CHOOSE i \in hits : \A j \in hits : i <= j]

\* a default resolution that gives up
DefaultResolutionNone(c) == NoResolution

\* _default_resolution (450-459)
DefaultResolution(c) ==
    Resolution(c.id, "accept", Dict(EmptyMap), "default", 50)

\* a structural resolution that makes the source agent adapt
ResolveStructuralSafetySourceAdapts(c) ==
    Resolution(c.id, "modify",
        Entry(c.source_agent,
            Entry("adaptations",
                List(<<"structural_safety">> \o c.affected_elements
                        \o <<"modify_around_structure">>))),
        "conflict_resolver", 95)

\* _resolve_structural_safety (200-227)
ResolveStructuralSafety(c) ==
    Resolution(c.id, "modify",
        Entry(c.target_agent,
            Entry("adaptations",
                List(<<"structural_safety">> \o c.affected_elements
                        \o <<"modify_around_structure">>))),
        "conflict_resolver", 95)

\* _resolve_code_compliance (229-254)
ResolveCodeCompliance(c) ==
    Resolution(c.id, "modify",
        Entry(c.source_agent,
            Entry("code_adjustments",
                List(c.affected_elements \o <<"modify_for_compliance">>))),
        "conflict_resolver", 90)

\* a hierarchy in which the agent with the higher number wins
HierarchyResolutionHigherWins(c, source_priority, target_priority) ==
    LET winner == IF source_priority > target_priority
                  THEN c.source_agent ELSE c.target_agent
        loser == IF source_priority > target_priority
                 THEN c.target_agent ELSE c.source_agent
    IN Resolution(c.id, "modify",
          Entry(loser,
              Entry("adaptations",
                  List(<<"hierarchy_resolution", winner>>
                          \o c.affected_elements))),
          "hierarchy_resolution", 70)

\* _hierarchy_resolution (415-448)
HierarchyResolution(c, source_priority, target_priority) ==
    LET winner == IF source_priority < target_priority
                  THEN c.source_agent ELSE c.target_agent
        loser == IF source_priority < target_priority
                 THEN c.target_agent ELSE c.source_agent
    IN Resolution(c.id, "modify",
          Entry(loser,
              Entry("adaptations",
                  List(<<"hierarchy_resolution", winner>>
                          \o c.affected_elements))),
          "hierarchy_resolution", 70)

\* a reroute that hands a conflict without elements to the hierarchy fallback
ResolveMepClearanceOrHierarchy(c) ==
    IF c.affected_elements # <<>>
    THEN Resolution(c.id, "relocate",
            Entry("mep",
                Entry("reroutes",
                    List(<<Head(c.affected_elements), "find_alternative_path">>
                            \o Tail(c.affected_elements)))),
            "conflict_resolver", 85)
    ELSE HierarchyResolution(c, AGENT_HIERARCHY(c.source_agent),
                             AGENT_HIERARCHY(c.target_agent))

\* _resolve_mep_clearance (256-289)
ResolveMepClearance(c) ==
    IF c.affected_elements # <<>>
    THEN Resolution(c.id, "relocate",
            Entry("mep",
                Entry("reroutes",
                    List(<<Head(c.affected_elements), "find_alternative_path">>
                            \o Tail(c.affected_elements)))),
            "conflict_resolver", 85)
    ELSE DefaultResolution(c)

(***************************************************************************)
(* What `await self.llm.generate(prompt)` followed by json.loads can do    *)
(* (396-410).  kind "error": generate raises or times out; "malformed":    *)
(* the text is not JSON; "nondict": JSON that is not an object; "object":  *)
(* a JSON object, whose fields are read with .get and a default.           *)
(***************************************************************************)
LLMReply(kind, rtype, changes, conf) ==
    [kind |-> kind, resolution_type |-> rtype, changes |-> changes,
     confidence |-> conf]

\* a well-formed object and an object whose fields are not what the prompt
\* asked for
LLMReplies ==
    {LLMReply(k, "modify", Dict(EmptyMap), 70) :
        k \in {"error", "malformed", "nondict"}}
    \cup
    {LLMReply("object", "modify",
              Entry("architectural", Entry("action", Scalar(<<"move">>))), 100),
     LLMReply("object", "compromise", Scalar(<<"move the column">>), 150)}

\* a negotiation that accepts the conflict by default when the client fails
NegotiateResolutionOrDefault(c, llm, reply) ==
    LET source_priority == AGENT_HIERARCHY(c.source_agent)
        target_priority == AGENT_HIERARCHY(c.target_agent)
    IN IF llm
       THEN IF reply.kind = "object"
            THEN Resolution(c.id, reply.resolution_type, reply.changes,
                            "llm_negotiation", reply.confidence)
            ELSE DefaultResolution(c)
       ELSE HierarchyResolution(c, source_priority, target_priority)

\* _negotiate_resolution (334-413)
NegotiateResolution(c, llm, reply) ==
    LET source_priority == AGENT_HIERARCHY(c.source_agent)
        target_priority == AGENT_HIERARCHY(c.target_agent)
    IN IF llm /\ reply.kind = "object"
       THEN Resolution(c.id, reply.resolution_type, reply.changes,
                       "llm_negotiation", reply.confidence)
       ELSE HierarchyResolution(c, source_priority, target_priority)

\* _resolve_spatial (291-298)
ResolveSpatial(c, llm, reply) ==
    IF llm THEN NegotiateResolution(c, llm, reply) ELSE DefaultResolution(c)

\* _resolve_cost (300-325)
ResolveCost(c) ==
    Resolution(c.id, "modify",
        Entry(c.source_agent,
            Entry("cost_optimizations",
                List(<<"value_engineer", "budget * 0.05">>))),
        "conflict_resolver", 75)

\* _resolve_aesthetic (327-332)
ResolveAesthetic(c, llm, reply) == NegotiateResolution(c, llm, reply)

\* _apply_strategy (189-198): getattr(self, strategy.resolution_func)
ApplyStrategy(strategy, c, llm, reply) ==
    CASE strategy.resolution_func = "_resolve_structural_safety" ->
            ResolveStructuralSafety(c)
      [] strategy.resolution_func = "_resolve_code_compliance" ->
            ResolveCodeCompliance(c)
      [] strategy.resolution_func = "_resolve_spatial" ->
            ResolveSpatial(c, llm, reply)
      [] strategy.resolution_func = "_resolve_mep_clearance" ->
            ResolveMepClearance(c)
      [] strategy.resolution_func = "_resolve_cost" -> ResolveCost(c)
      [] strategy.resolution_func = "_resolve_aesthetic" ->
            ResolveAesthetic(c, llm, reply)
      [] OTHER -> DefaultResolution(c)

\* resolve (168-173) and line 396: the negotiation client is called for a
\* conflict that has no auto strategy, when there is a client
ClientCalled(c, llm) ==
    /\ llm
    /\ ~(FindStrategy(c) # NoStrategy /\ FindStrategy(c).auto_resolve)

\* resolve (151-178)
Resolve(c, llm, reply) ==
    LET strategy == FindStrategy(c)
    IN IF strategy # NoStrategy /\ strategy.auto_resolve
       THEN ApplyStrategy(strategy, c, llm, reply)
       ELSE NegotiateResolution(c, llm, reply)

\* insert c behind every element whose weight is at least its own
RECURSIVE InsertByWeight(_, _)
InsertByWeight(sorted, c) ==
    IF sorted = <<>> THEN <<c>>
    ELSE IF PRIORITY_WEIGHTS[Head(sorted).priority] >=
                PRIORITY_WEIGHTS[c.priority]
         THEN <<Head(sorted)>> \o InsertByWeight(Tail(sorted), c)
         ELSE <<c>> \o sorted

\* insert c in front of every element whose weight is at most its own
RECURSIVE InsertBeforeEqual(_, _)
InsertBeforeEqual(sorted, c) ==
    IF sorted = <<>> THEN <<c>>
    ELSE IF PRIORITY_WEIGHTS[Head(sorted).priority] >
                PRIORITY_WEIGHTS[c.priority]
         THEN <<Head(sorted)>> \o InsertBeforeEqual(Tail(sorted), c)
         ELSE <<c>> \o sorted

\* a descending sort that reverses the order of equal-priority conflicts
RECURSIVE SortedConflictsUnstable(_)
SortedConflictsUnstable(cs) ==
    IF cs = <<>> THEN <<>>
    ELSE InsertBeforeEqual(SortedConflictsUnstable(SubSeq(cs, 1, Len(cs) - 1)),
                           cs[Len(cs)])

\* sorted(conflicts, key=PRIORITY_WEIGHTS[c.priority], reverse=True)
\* (136-141): Python's sort is stable, also with reverse=True
RECURSIVE SortedConflicts(_)
SortedConflicts(cs) ==
    IF cs = <<>> THEN <<>>
    ELSE InsertByWeight(SortedConflicts(SubSeq(cs, 1, Len(cs) - 1)),
                        cs[Len(cs)])

(***************************************************************************)
(* resolve_all (conflict_resolver.py 126-149), one conflict per step       *)
(***************************************************************************)

\* Conflict(...) (base_agent.py 52-64)
Conflict(id, type, priority, source, target, affected) ==
    [id |-> id, type |-> type, priority |-> priority, source_agent |-> source,
     target_agent |-> target, affected_elements |-> affected]

\* agents a conflict can name: the five of AGENT_HIERARCHY and one outside it
ConflictAgents ==
    {"structural", "mep", "architectural", "interior", "landscape", "facade"}

\* every single conflict: any type, any priority, between any two different
\* agents, naming no element or two
SingleConflicts ==
    {Conflict(1, ty, pr, st[1], st[2], af) :
        ty \in ConflictType, pr \in ConflictPriority,
        st \in {p \in ConflictAgents \X ConflictAgents : p[1] # p[2]},
        af \in {<<>>, <<"e1", "e2">>}}

\* for longer lists: who conflicts with whom over which elements, once the
\* source outranks the target and names elements, once the target outranks
\* the source and no element is named
ConflictShapes ==
    { <<"structural", "architectural", <<"e1", "e2">> >>,
      <<"interior", "mep", <<>> >> }

\* for longer lists: each type at a priority that reaches the threshold of
\* its strategy and at one that does not, over all five priorities
ConflictKinds ==
    { <<"structural", "CRITICAL">>, <<"structural", "HIGH">>,
      <<"code", "HIGH">>, <<"code", "MEDIUM">>,
      <<"spatial", "MEDIUM">>, <<"spatial", "LOW">>,
      <<"mep_clearance", "CRITICAL">>, <<"mep_clearance", "LOW">>,
      <<"cost", "LOW">>, <<"cost", "OPTIONAL">>,
      <<"aesthetic", "OPTIONAL">>,
      <<"functional", "CRITICAL">>, <<"functional", "MEDIUM">> }

\* the conflict lists of length n between two given agents; a conflict's id
\* is its position in the list
RECURSIVE ConflictLists(_, _)
ConflictLists(n, sh) ==
    IF n = 0 THEN {<<>>}
    ELSE {Append(cs, Conflict(n, k[1], k[2], sh[1], sh[2], sh[3])) :
            cs \in ConflictLists(n - 1, sh), k \in ConflictKinds}

ResolveInit ==
    /\ SchedIdle /\ CoIdle /\ CvIdle /\ MgIdle /\ RunIdle /\ AgIdle
    /\ rs_conflicts \in
          {<<c>> : c \in SingleConflicts}
          \cup UNION {ConflictLists(n, sh) :
                        n \in 0..MaxConflicts, sh \in ConflictShapes}
    /\ rs_llm \in BOOLEAN
    /\ rs_sorted = <<>>
    /\ rs_next = 1
    /\ rs_resolutions = <<>>
    /\ rs_pc = "idle"
    /\ rs_calls = <<>>

\* lines 136-143
ResolveAllSort ==
    /\ rs_pc = "idle"
    /\ rs_sorted' = SortedConflicts(rs_conflicts)
    /\ rs_next' = 1
    /\ rs_resolutions' = <<>>
    /\ rs_calls' = <<>>
    /\ rs_pc' = IF rs_conflicts = <<>> THEN "done" ELSE "loop"
    /\ UNCHANGED <<rs_conflicts, rs_llm>>
    /\ UNCHANGED <<sched_vars, co_vars, cv_vars, mg_vars, run_vars, ag_vars>>

\* one pass of the for loop (144-147); the reply is what the negotiation
\* client would answer if this conflict is negotiated
ResolveAllNext ==
    /\ rs_pc = "loop"
    /\ \E reply \in LLMReplies :
        LET resolution == Resolve(rs_sorted[rs_next], rs_llm, reply)
        IN /\ rs_resolutions' = IF resolution.resolved_by # "None"
                                THEN Append(rs_resolutions, resolution)
                                ELSE rs_resolutions
           /\ rs_calls' = Append(rs_calls,
                                 IF ClientCalled(rs_sorted[rs_next], rs_llm)
                                 THEN reply.kind ELSE "not_called")
    /\ rs_next' = rs_next + 1
    /\ rs_pc' = IF rs_next = Len(rs_sorted) THEN "done" ELSE "loop"
    /\ UNCHANGED <<rs_conflicts, rs_llm, rs_sorted>>
    /\ UNCHANGED <<sched_vars, co_vars, cv_vars, mg_vars, run_vars, ag_vars>>

ResolveNext == ResolveAllSort \/ ResolveAllNext

ResolveSpec == ResolveInit /\ [][ResolveNext]_vars

(***************************************************************************)
(* check_convergence (coordinator.py 340-363).  Confidences and the        *)
(* threshold are in hundredths; the average is compared exactly.           *)
(***************************************************************************)

\* AgentOutput(...) (base_agent.py 92-104): `decisions` holds the confidence
\* of each logged decision, oldest first
AgentOutput(name, design_data, decisions, conflicts) ==
    [agent_name |-> name, status |-> "completed", design_data |-> design_data,
     decisions |-> decisions, conflicts |-> conflicts]

\* line 359: o.decisions[-1].confidence if o.decisions else 0.5
LastConfidence(o) ==
    IF o.decisions # <<>> THEN o.decisions[Len(o.decisions)] ELSE 50

\* line 358-360: the sum over outputs.values()
RECURSIVE SumConfidence(_, _)
SumConfidence(outs, names) ==
    IF names = {} THEN 0
    ELSE LET n == CHOOSE x \in names : TRUE
         IN LastConfidence(outs[n]) + SumConfidence(outs, names \ {n})

\* lines 358-363: sum / max(len(outputs), 1) >= threshold
AvgConfidenceReaches(outs, threshold) ==
    LET count == Cardinality(DOMAIN outs)
        divisor == IF count > 1 THEN count ELSE 1
    IN SumConfidence(outs, DOMAIN outs) >= threshold * divisor

\* a check that only looks for CRITICAL conflicts
CheckConvergenceCriticalOnly(it, conflicts, outs, threshold) ==
    IF it < 2 THEN FALSE
    ELSE IF Len(conflicts) = 0 THEN TRUE
    ELSE IF \E i \in 1..Len(conflicts) : conflicts[i].priority \in {"CRITICAL"}
         THEN FALSE
         ELSE AvgConfidenceReaches(outs, threshold)

\* a check that looks at the iteration counter only when no conflict is left
CheckConvergenceLateGuard(it, conflicts, outs, threshold) ==
    IF Len(conflicts) = 0 THEN it >= 2
    ELSE IF \E i \in 1..Len(conflicts) :
               conflicts[i].priority \in {"CRITICAL", "HIGH"}
         THEN FALSE
         ELSE AvgConfidenceReaches(outs, threshold)

\* check_convergence (340-363)
CheckConvergence(it, conflicts, outs, threshold) ==
    IF it < 2 THEN FALSE
    ELSE IF Len(conflicts) = 0 THEN TRUE
    ELSE IF \E i \in 1..Len(conflicts) :
               conflicts[i].priority \in {"CRITICAL", "HIGH"}
         THEN FALSE
         ELSE AvgConfidenceReaches(outs, threshold)

\* decision logs an agent's run can leave: run() logs at least
\* analysis_complete and design_generated, the phases may log more, and an
\* agent that overrides run() may log none
DecisionLogs == {<<>>, <<80, 80>>, <<80, 80, 100>>, <<80, 90, 95>>}

\* the accumulated conflicts of every priority mix up to MaxConflicts
RECURSIVE PriorityLists(_)
PriorityLists(n) ==
    IF n = 0 THEN {<<>>}
    ELSE {Append(cs, Conflict(n, "spatial", pr, "structural", "architectural",
                              <<"e1", "e2">>)) :
            cs \in PriorityLists(n - 1), pr \in ConflictPriority}

\* the coordinator at any point between two steps of a run: any iteration
\* count, any accumulated conflicts, any outputs (conflicts come from outputs,
\* so there is an output whenever there is a conflict)
ConvInit ==
    /\ SchedIdle /\ RsIdle /\ CvIdle /\ MgIdle /\ RunIdle /\ AgIdle
    /\ iteration \in 0..MaxIterations
    /\ max_iterations = DefaultMaxIterations
    /\ convergence_threshold \in {90, DefaultConvergenceThreshold}
    /\ all_conflicts \in UNION {PriorityLists(n) : n \in 0..MaxConflicts}
    /\ resolved_conflicts = <<>>
    /\ \E present \in SUBSET {"architectural", "structural"} :
        /\ all_conflicts # <<>> => present # {}
        /\ \E logs \in [present -> DecisionLogs] :
            outputs = [n \in present |->
                          AgentOutput(n, Dict(EmptyMap), logs[n], <<>>)]

\* a call of check_convergence()
ConvCheck ==
    /\ ~cv_called
    /\ cv_called' = TRUE
    /\ cv_result' = CheckConvergence(iteration, all_conflicts, outputs,
                                     convergence_threshold)
    /\ UNCHANGED <<sched_vars, rs_vars, co_vars, mg_vars, run_vars, ag_vars>>

ConvNext == ConvCheck

ConvSpec == ConvInit /\ [][ConvNext]_vars

(***************************************************************************)
(* apply_resolutions and _deep_merge (coordinator.py 318-338).  _deep_merge *)
(* mutates `base` in place and stores references to the values of          *)
(* `updates`; the model merges by value.                                   *)
(***************************************************************************)

\* a merge that extends a list with the patch's list instead of replacing it
RECURSIVE DeepMergeExtendLists(_, _)
DeepMergeExtendLists(base, updates) ==
    [k \in DOMAIN base \cup DOMAIN updates |->
        IF k \in DOMAIN updates
        THEN IF k \in DOMAIN base /\ IsDict(base[k]) /\ IsDict(updates[k])
             THEN Dict(DeepMergeExtendLists(base[k].d, updates[k].d))
             ELSE IF k \in DOMAIN base /\ base[k].t = "l" /\ updates[k].t = "l"
                  THEN List(base[k].s \o updates[k].s)
                  ELSE updates[k]
        ELSE base[k]]

\* _deep_merge (332-338) on the key -> value maps of two dicts
RECURSIVE DeepMerge(_, _)
DeepMerge(base, updates) ==
    [k \in DOMAIN base \cup DOMAIN updates |->
        IF k \in DOMAIN updates
        THEN IF k \in DOMAIN base /\ IsDict(base[k]) /\ IsDict(updates[k])
             THEN Dict(DeepMerge(base[k].d, updates[k].d))
             ELSE updates[k]
        ELSE base[k]]

\* an application that merges every patch into every recorded output
ApplyChangesIntoEveryOutput(outs, changes) ==
    [n \in DOMAIN outs |->
        LET patches == {m \in DOMAIN changes.d : IsDict(changes.d[m])}
        IN IF patches # {}
           THEN [outs[n] EXCEPT !.design_data =
                    Dict(DeepMerge(outs[n].design_data.d,
                                   changes.d[CHOOSE m \in patches : TRUE].d))]
           ELSE outs[n]]

\* lines 324-330 for one resolution: the outputs map after its changes are
\* merged into the design data of every agent it names that has an output
ApplyChanges(outs, changes) ==
    [n \in DOMAIN outs |->
        IF n \in DOMAIN changes.d /\ IsDict(changes.d[n])
        THEN [outs[n] EXCEPT !.design_data =
                 Dict(DeepMerge(outs[n].design_data.d, changes.d[n].d))]
        ELSE outs[n]]

\* lines 324-330 raise AttributeError (no .items()) when `changes` is not a
\* dict, or when the patch of an agent that has an output is not a dict
ApplyRaises(outs, r) ==
    /\ r.resolution_type = "modify"
    /\ \/ ~IsDict(r.changes)
       \/ \E n \in DOMAIN r.changes.d \cap DOMAIN outs : ~IsDict(r.changes.d[n])

\* apply_resolutions (318-330): only "modify" resolutions are applied
RECURSIVE ApplyResolutions(_, _)
ApplyResolutions(outs, rlist) ==
    IF rlist = <<>> THEN outs
    ELSE LET r == Head(rlist)
             next == IF r.resolution_type = "modify" /\ IsDict(r.changes)
                     THEN ApplyChanges(outs, r.changes)
                     ELSE outs
         IN ApplyResolutions(next, Tail(rlist))

\* keys of the generated design data and patches
MergeKeys == {"k1", "k2"}

\* the JSON values with exactly n nodes over MergeKeys
RECURSIVE ValuesOfSize(_)
ValuesOfSize(n) ==
    IF n = 1
    THEN {Scalar(<<"x">>), List(<<"e1">>), Dict(EmptyMap)}
    ELSE {Dict([x \in {k} |-> v]) : k \in MergeKeys, v \in ValuesOfSize(n - 1)}
         \cup UNION {
            {Dict([x \in MergeKeys |-> IF x = "k1" THEN v1 ELSE v2]) :
                v1 \in ValuesOfSize(i), v2 \in ValuesOfSize(n - 1 - i)} :
            i \in 1..(n - 2)}

\* the dicts with at most n nodes
DictsUpTo(n) ==
    {v \in UNION {ValuesOfSize(i) : i \in 1..n} : IsDict(v)}

\* one agent with an output, and one resolution whose changes name an agent
MergeInit ==
    /\ SchedIdle /\ RsIdle /\ CvIdle /\ RunIdle /\ AgIdle
    /\ all_conflicts = <<>>
    /\ resolved_conflicts = <<>>
    /\ iteration = 1
    /\ max_iterations = DefaultMaxIterations
    /\ convergence_threshold = DefaultConvergenceThreshold
    /\ \E design \in DictsUpTo(MaxNodes), patch \in DictsUpTo(MaxNodes - 1),
          rtype \in {"modify", "relocate"},
          named \in {"architectural", "structural"} :
        /\ outputs = [n \in {"architectural", "mep"} |->
                         AgentOutput(n,
                            IF n = "architectural" THEN design
                            ELSE Dict([ductwork |-> List(<<"duct_high">>)]),
                            <<80, 80>>, <<>>)]
        /\ mg_resolutions =
              <<Resolution(1, rtype, Entry(named, patch), "conflict_resolver", 95)>>
    /\ mg_trace = <<outputs>>

\* a call of apply_resolutions(mg_resolutions)
MergeApply ==
    /\ Len(mg_trace) \in 1..2
    /\ outputs' = ApplyResolutions(outputs, mg_resolutions)
    /\ mg_trace' = Append(mg_trace, outputs')
    /\ UNCHANGED <<all_conflicts, resolved_conflicts, iteration, max_iterations,
                   convergence_threshold, mg_resolutions>>
    /\ UNCHANGED <<sched_vars, rs_vars, cv_vars, run_vars, ag_vars>>

MergeNext == MergeApply

MergeSpec == MergeInit /\ [][MergeNext]_vars

(***************************************************************************)
(* detect_conflicts (coordinator.py 209-298).  A list in the design data   *)
(* holds element ids; ElementTable gives the element dict behind each id.  *)
(***************************************************************************)
Bounds(x0, x1, y0, y1, z0, z1) ==
    [min_x |-> x0, max_x |-> x1, min_y |-> y0, max_y |-> y1,
     min_z |-> z0, max_z |-> z1]

\* an element dict: "type", "position" {x, y} and "bounds" may be missing
Element(type, has_position, x, y, has_bounds, bounds) ==
    [type |-> type, has_position |-> has_position, x |-> x, y |-> y,
     has_bounds |-> has_bounds, bounds |-> bounds]

ElementIds == {"col_in", "col_out", "space_open", "space_room",
               "duct_low", "duct_high", "beam1"}

ElementTable ==
    [id \in ElementIds |->
        CASE id = "col_in" ->
                Element("column", TRUE, 1, 1, FALSE, Bounds(0, 0, 0, 0, 0, 0))
          [] id = "col_out" ->
                Element("column", TRUE, 5, 5, FALSE, Bounds(0, 0, 0, 0, 0, 0))
          [] id = "space_open" ->
                Element("open_office", FALSE, 0, 0, TRUE, Bounds(0, 2, 0, 2, 0, 0))
          [] id = "space_room" ->
                Element("office", FALSE, 0, 0, TRUE, Bounds(0, 2, 0, 2, 0, 0))
          [] id = "duct_low" ->
                Element("duct", FALSE, 0, 0, TRUE, Bounds(0, 2, 0, 2, 0, 1))
          [] id = "duct_high" ->
                Element("duct", FALSE, 0, 0, TRUE, Bounds(0, 2, 0, 2, 3, 4))
          [] id = "beam1" ->
                Element("beam", FALSE, 0, 0, TRUE, Bounds(1, 3, 1, 3, 1, 2))]

\* _point_in_space (267-279); a missing "bounds" reads as all zeros
PointInSpace(col, space) ==
    LET b == IF space.has_bounds THEN space.bounds ELSE Bounds(0, 0, 0, 0, 0, 0)
    IN /\ col.has_position
       /\ b.min_x <= col.x /\ col.x <= b.max_x
       /\ b.min_y <= col.y /\ col.y <= b.max_y

\* _elements_intersect (281-298)
ElementsIntersect(elem1, elem2) ==
    /\ elem1.has_bounds /\ elem2.has_bounds
    /\ ~ \/ elem1.bounds.max_x < elem2.bounds.min_x
         \/ elem1.bounds.min_x > elem2.bounds.max_x
         \/ elem1.bounds.max_y < elem2.bounds.min_y
         \/ elem1.bounds.min_y > elem2.bounds.max_y
         \/ elem1.bounds.max_z < elem2.bounds.min_z
         \/ elem1.bounds.min_z > elem2.bounds.max_z

\* data.get(key, []) on a design data dict
GetList(design_data, key) ==
    IF key \in DOMAIN design_data.d THEN design_data.d[key].s ELSE <<>>

\* the pairs <<x, y>> in the order of `for x in xs: for y in ys`
PairSeq(xs, ys) ==
    [k \in 1..(Len(xs) * Len(ys)) |->
        <<xs[((k - 1) \div Len(ys)) + 1], ys[((k - 1) % Len(ys)) + 1]>>]

\* lines 218-241: columns inside an open space
SpatialConflicts(outs) ==
    IF "architectural" \in DOMAIN outs /\ "structural" \in DOMAIN outs
    THEN LET columns == GetList(outs["structural"].design_data, "columns")
             spaces == GetList(outs["architectural"].design_data, "spaces")
             Hit(p) == /\ PointInSpace(ElementTable[p[1]], ElementTable[p[2]])
                       /\ ElementTable[p[2]].type \in
                              {"open_office", "lobby", "atrium"}
             hits == SelectSeq(PairSeq(columns, spaces), Hit)
         IN [i \in 1..Len(hits) |->
                Conflict(<<"spatial_col", hits[i][1], hits[i][2]>>, "spatial",
                         "MEDIUM", "structural", "architectural", hits[i])]
    ELSE <<>>

\* a duct rule that only needs the mep output: without a structural output
\* every duct is reported
MepConflictsWithoutStructural(outs) ==
    IF "mep" \in DOMAIN outs
    THEN LET ducts == GetList(outs["mep"].design_data, "ductwork")
             beams == IF "structural" \in DOMAIN outs
                      THEN GetList(outs["structural"].design_data, "beams")
                      ELSE <<"beam1">>
             Hit(p) == \/ "structural" \notin DOMAIN outs
                       \/ ElementsIntersect(ElementTable[p[1]], ElementTable[p[2]])
             hits == SelectSeq(PairSeq(ducts, beams), Hit)
         IN [i \in 1..Len(hits) |->
                Conflict(<<"mep_struct", hits[i][1], hits[i][2]>>,
                         "mep_clearance", "HIGH", "mep", "structural", hits[i])]
    ELSE <<>>

\* lines 243-263: ducts crossing beams
MepConflicts(outs) ==
    IF "mep" \in DOMAIN outs /\ "structural" \in DOMAIN outs
    THEN LET ducts == GetList(outs["mep"].design_data, "ductwork")
             beams == GetList(outs["structural"].design_data, "beams")
             Hit(p) == ElementsIntersect(ElementTable[p[1]], ElementTable[p[2]])
             hits == SelectSeq(PairSeq(ducts, beams), Hit)
         IN [i \in 1..Len(hits) |->
                Conflict(<<"mep_struct", hits[i][1], hits[i][2]>>,
                         "mep_clearance", "HIGH", "mep", "structural", hits[i])]
    ELSE <<>>

\* detect_conflicts (209-265)
DetectConflicts(outs) == SpatialConflicts(outs) \o MepConflicts(outs)

(***************************************************************************)
(* AgentCoordinator.run (coordinator.py 403-516) with run_agent (137-174), *)
(* run_parallel (176-207), resolve_conflicts (300-316) and                 *)
(* integrate_designs (365-401)                                             *)
(***************************************************************************)

\* resolve_all (126-149) of a resolver built without a negotiation client
\* (coordinator.py 312): every conflict of the sorted list resolved in turn
ResolveAllNoClient(conflicts) ==
    LET sorted == SortedConflicts(conflicts)
        resolved == [i \in 1..Len(sorted) |->
                        Resolve(sorted[i], FALSE,
                                LLMReply("error", "modify", Dict(EmptyMap), 70))]
        Kept(r) == r.resolved_by # "None"
    IN SelectSeq(resolved, Kept)

\* integrate_designs (365-401)
IntegrateDesigns(outs, conflicts, resolved, it) ==
    [components |-> [n \in DOMAIN outs |-> outs[n].design_data],
     decisions |-> [n \in DOMAIN outs |-> outs[n].decisions],
     metrics |-> [total_conflicts |-> Len(conflicts),
                  resolved_conflicts |-> Len(resolved),
                  iterations |-> it]]

\* CoordinationPhase (23-31): the position of each phase in the pipeline
PhaseRank(ph) ==
    CASE ph = "initialization" -> 1
      [] ph = "architectural" -> 2
      [] ph = "parallel_analysis" -> 3
      [] ph = "conflict_resolution" -> 4
      [] ph = "refinement" -> 5
      [] ph = "integration" -> 6
      [] ph = "finalization" -> 7

\* the CoordinationResult of lines 492-502
SuccessResult(ph, it, outs, resolved, conflicts, final_design, names, thr) ==
    [success |-> TRUE, phase |-> ph, iterations |-> it, agent_outputs |-> outs,
     resolved_conflicts |-> resolved, unresolved_conflicts |-> conflicts,
     final_design |-> final_design,
     metrics |-> [total_agents |-> Cardinality(names),
                  total_iterations |-> it,
                  total_conflicts |-> Len(conflicts),
                  resolved_conflicts |-> Len(resolved),
                  convergence_achieved |->
                      CheckConvergence(it, conflicts, outs, thr)]]

\* the CoordinationResult of lines 506-516
FailureResult(ph, it, outs, resolved, conflicts, message) ==
    [success |-> FALSE, phase |-> ph, iterations |-> it, agent_outputs |-> outs,
     resolved_conflicts |-> resolved, unresolved_conflicts |-> conflicts,
     final_design |-> EmptyMap,
     metrics |-> [error |-> message]]

\* a run() without the except clause: the exception leaves run()
RunFailsUncaught(message) ==
    /\ run_error' = message
    /\ result' = result
    /\ run_pc' = "raised"

\* lines 504-516: an exception raised in the try block is turned into a
\* CoordinationResult built from the coordinator's fields as they are then
RunFails(message) ==
    /\ run_error' = message
    /\ result' = FailureResult(phase', iteration', outputs',
                               resolved_conflicts', all_conflicts', message)
    /\ run_pc' = "returned"

\* the registries explored by run(): a foundation agent and one dependant;
\* two agents without a foundation agent; a wave of two agents behind the
\* foundation agent; the chain the repository's agents declare; a cycle; a
\* wave of two agents followed by an agent that depends on both; the
\* foundation agent in one group with an agent that does not depend on it;
\* and an empty registry
Registries ==
    { [architectural |-> {}, structural |-> {"architectural"}],
      [structural |-> {}, mep |-> {"structural"}],
      [architectural |-> {}, structural |-> {"architectural"},
       mep |-> {"architectural"}],
      [architectural |-> {}, structural |-> {"architectural"},
       mep |-> {"architectural", "structural"}],
      [structural |-> {"mep"}, mep |-> {"structural"}],
      [structural |-> {}, mep |-> {}, interior |-> {"structural", "mep"}],
      [architectural |-> {}, interior |-> {}],
      EmptyMap }

\* design data an agent's run can produce
DesignChoices(a) ==
    CASE a = "architectural" ->
            {Dict([spaces |-> List(<<"space_open", "space_room">>)])}
      [] a = "structural" ->
            {Dict([columns |-> List(cols), beams |-> List(<<"beam1">>)]) :
                cols \in {<<"col_out">>, <<"col_in", "col_out">>}}
      [] a = "mep" ->
            {Dict([ductwork |-> List(ducts)]) :
                ducts \in {<<"duct_high">>, <<"duct_low">>}}
      [] OTHER -> {Dict(EmptyMap)}

\* an agent that names itself as the target of the conflict it raises
RaisedChoicesAgainstSelf(a) ==
    CASE a = "structural" ->
            {<<>>,
             <<Conflict(<<"conflict_structural", "structural", "0">>,
                        "spatial", "MEDIUM", "structural", "structural",
                        <<"col_in", "space_open">>)>>}
      [] OTHER -> {<<>>}

\* conflicts an agent's run can raise with add_conflict (base_agent.py
\* 428-463; structural_agent.py 1153, mep_agent.py 909)
RaisedChoices(a) ==
    CASE a = "structural" ->
            {<<>>,
             <<Conflict(<<"conflict_structural", "architectural", "0">>,
                        "spatial", "MEDIUM", "structural", "architectural",
                        <<"col_in", "space_open">>)>>}
      [] a = "mep" ->
            {<<>>,
             <<Conflict(<<"conflict_mep", "structural", "0">>, "mep_clearance",
                        "HIGH", "mep", "structural", <<"duct_low">>)>>}
      [] OTHER -> {<<>>}

\* decision logs of a finished run in run(): the confidences run() logs
\* itself, or a closing decision logged with full confidence
RunDecisionLogs == {<<80, 80, 80>>, <<80, 80, 100>>}

\* the AgentOutputs agent a's run() can return (base_agent.py 305-315)
AgentRuns(a) ==
    {AgentOutput(a, dd, log, raised) :
        dd \in DesignChoices(a), log \in RunDecisionLogs,
        raised \in RaisedChoices(a)}

\* AgentCoordinator.__init__ (85-98), register_agent for every agent of a
\* registry, then run() up to its call of get_execution_order (413-422)
RunInit ==
    /\ \E registry \in Registries :
        /\ agents = DOMAIN registry
        /\ dependencies = registry
    /\ remaining = agents
    /\ executed = {}
    /\ order = <<>>
    /\ forced = {}
    /\ sched_warnings = 0
    /\ sched_pc = IF agents = {} THEN "done" ELSE "loop"
    /\ RsIdle /\ CvIdle /\ MgIdle /\ AgIdle
    /\ outputs = EmptyMap
    /\ all_conflicts = <<>>
    /\ resolved_conflicts = <<>>
    /\ iteration = 0
    /\ max_iterations \in (0..MaxIterations) \cup {DefaultMaxIterations}
    /\ convergence_threshold \in {80, DefaultConvergenceThreshold}
    /\ phase = "initialization"
    /\ status = [a \in agents |-> "idle"]
    /\ run_pc = "order"
    /\ wave = 0
    /\ tasks = [a \in agents |-> "none"]
    /\ new_conflicts = <<>>
    /\ resolutions = <<>>
    /\ result = <<>>
    /\ run_error = "none"
    /\ wave_errors = {}
    /\ detections = <<>>
    /\ given = EmptyMap

not_run_vars == <<rs_vars, cv_vars, mg_vars, ag_vars>>
registry_vars == <<agents, dependencies, remaining, executed, order, forced,
                   sched_warnings, sched_pc, max_iterations,
                   convergence_threshold>>

\* run_agent lines 158-162: the dependencies of agent a that have an output,
\* each with the design data its output holds at the time of the call
DependencyOutputs(a, outs) ==
    [dep \in dependencies[a] \cap DOMAIN outs |-> outs[dep].design_data]

\* line 162 stores the design_data dict of the recorded output itself, and
\* _deep_merge (332-338) patches that dict in place: what agent a holds under
\* dependency_outputs[dep] reads as the recorded output reads now
HeldDependencyData(a, dep) == outputs[dep].design_data

\* the call of run_agent for agent a is recorded with what it hands over
GivenAtCall(a) ==
    [n \in DOMAIN given \cup {a} |->
        IF n = a THEN DependencyOutputs(a, outputs) ELSE given[n]]

\* lines 425-429: the foundation phase begins; agent.run of the
\* architectural agent starts if it is registered
RunEnterFoundation ==
    /\ run_pc = "order" /\ sched_pc = "done"
    /\ phase' = "architectural"
    /\ run_pc' = "foundation"
    /\ status' = IF "architectural" \in agents
                 THEN [status EXCEPT !["architectural"] = "analyzing"]
                 ELSE status
    /\ given' = IF "architectural" \in agents
                THEN GivenAtCall("architectural")
                ELSE given
    /\ UNCHANGED <<wave, tasks, new_conflicts, resolutions, result, run_error,
                   wave_errors>>
    /\ UNCHANGED <<outputs, all_conflicts, resolved_conflicts, iteration>>
    /\ UNCHANGED <<registry_vars, not_run_vars, detections>>

\* line 427 false: there is no architectural agent; line 432
FoundationSkip ==
    /\ run_pc = "foundation"
    /\ "architectural" \notin agents
    /\ phase' = "parallel_analysis"
    /\ run_pc' = "waves"
    /\ wave' = 1
    /\ UNCHANGED <<status, tasks, new_conflicts, resolutions, result, run_error,
                   wave_errors>>
    /\ UNCHANGED <<outputs, all_conflicts, resolved_conflicts, iteration>>
    /\ UNCHANGED <<registry_vars, not_run_vars, detections, given>>

\* run_agent("architectural") returns (168-174), then line 432
FoundationFinish ==
    /\ run_pc = "foundation"
    /\ "architectural" \in agents
    /\ \E output \in AgentRuns("architectural") :
        /\ outputs' = [n \in DOMAIN outputs \cup {"architectural"} |->
                          IF n = "architectural" THEN output ELSE outputs[n]]
        /\ all_conflicts' = all_conflicts \o output.conflicts
    /\ status' = [status EXCEPT !["architectural"] = "completed"]
    /\ phase' = "parallel_analysis"
    /\ run_pc' = "waves"
    /\ wave' = 1
    /\ UNCHANGED <<tasks, new_conflicts, resolutions, result, run_error,
                   wave_errors>>
    /\ UNCHANGED <<resolved_conflicts, iteration>>
    /\ UNCHANGED <<registry_vars, not_run_vars, detections, given>>

\* a foundation failure that is logged and skipped like a failure in a wave
FoundationFailContinues ==
    /\ run_pc = "foundation"
    /\ "architectural" \in agents
    /\ status' = [status EXCEPT !["architectural"] = "failed"]
    /\ phase' = "parallel_analysis"
    /\ run_pc' = "waves"
    /\ wave' = 1
    /\ UNCHANGED <<tasks, new_conflicts, resolutions, result, run_error,
                   wave_errors>>
    /\ UNCHANGED <<outputs, all_conflicts, resolved_conflicts, iteration>>
    /\ UNCHANGED <<registry_vars, not_run_vars, detections, given>>

\* agent.run of the architectural agent raises (base_agent.py 317-320); the
\* exception leaves run_agent and reaches the except clause of run()
FoundationFail ==
    /\ run_pc = "foundation"
    /\ "architectural" \in agents
    /\ status' = [status EXCEPT !["architectural"] = "failed"]
    /\ UNCHANGED <<phase, wave, tasks, new_conflicts, resolutions, wave_errors>>
    /\ UNCHANGED <<outputs, all_conflicts, resolved_conflicts, iteration>>
    /\ UNCHANGED <<registry_vars, not_run_vars, detections, given>>
    /\ RunFails("foundation")

\* a group that still holds the foundation agent
GroupOfWithFoundation(w) == order[w]

\* the agents of group `wave` that run_parallel is called with (433-436)
GroupOf(w) == order[w] \ {"architectural"}

\* lines 433-436 for a group that is empty once architectural is removed
WaveSkip ==
    /\ run_pc = "waves"
    /\ wave <= Len(order)
    /\ GroupOf(wave) = {}
    /\ wave' = wave + 1
    /\ UNCHANGED <<phase, status, run_pc, tasks, new_conflicts, resolutions,
                   result, run_error, wave_errors>>
    /\ UNCHANGED <<outputs, all_conflicts, resolved_conflicts, iteration>>
    /\ UNCHANGED <<registry_vars, not_run_vars, detections, given>>

\* a wave that starts from an empty outputs map
WaveStartFreshOutputs ==
    /\ run_pc = "waves"
    /\ wave <= Len(order)
    /\ GroupOf(wave) # {}
    /\ tasks' = [a \in agents |-> IF a \in GroupOf(wave) THEN "pending" ELSE "none"]
    /\ run_pc' = "gather"
    /\ outputs' = EmptyMap
    /\ UNCHANGED <<phase, status, wave, new_conflicts, resolutions, result,
                   run_error, wave_errors>>
    /\ UNCHANGED <<all_conflicts, resolved_conflicts, iteration>>
    /\ UNCHANGED <<registry_vars, not_run_vars, detections, given>>

\* lines 437-438, 193-198: run_parallel hands one task per agent to gather
WaveStart ==
    /\ run_pc = "waves"
    /\ wave <= Len(order)
    /\ GroupOf(wave) # {}
    /\ tasks' = [a \in agents |-> IF a \in GroupOf(wave) THEN "pending" ELSE "none"]
    /\ run_pc' = "gather"
    /\ UNCHANGED <<phase, status, wave, new_conflicts, resolutions, result,
                   run_error, wave_errors>>
    /\ UNCHANGED <<outputs, all_conflicts, resolved_conflicts, iteration>>
    /\ UNCHANGED <<registry_vars, not_run_vars, detections, given>>

\* a task begins: run_agent up to its await of agent.run (154-168), and
\* agent.run up to its first suspension (base_agent.py 256-263)
TaskStart(a) ==
    /\ run_pc = "gather"
    /\ tasks[a] = "pending"
    /\ tasks' = [tasks EXCEPT ![a] = "running"]
    /\ status' = [status EXCEPT ![a] = "analyzing"]
    /\ given' = GivenAtCall(a)
    /\ UNCHANGED <<phase, run_pc, wave, new_conflicts, resolutions, result,
                   run_error, wave_errors>>
    /\ UNCHANGED <<outputs, all_conflicts, resolved_conflicts, iteration>>
    /\ UNCHANGED <<registry_vars, not_run_vars, detections>>

\* a run whose output is recorded while the agent's status is left as the
\* last phase set it
TaskFinishStatusKept(a) ==
    /\ run_pc = "gather"
    /\ tasks[a] = "running"
    /\ \E output \in AgentRuns(a) :
        /\ outputs' = [n \in DOMAIN outputs \cup {a} |->
                          IF n = a THEN output ELSE outputs[n]]
        /\ all_conflicts' = all_conflicts \o output.conflicts
    /\ tasks' = [tasks EXCEPT ![a] = "done"]
    /\ status' = [status EXCEPT ![a] = "validating"]
    /\ UNCHANGED <<phase, run_pc, wave, new_conflicts, resolutions, result,
                   run_error, wave_errors>>
    /\ UNCHANGED <<resolved_conflicts, iteration>>
    /\ UNCHANGED <<registry_vars, not_run_vars, detections, given>>

\* agent.run returns; run_agent records the output and the conflicts the
\* agent raised (168-174)
TaskFinish(a) ==
    /\ run_pc = "gather"
    /\ tasks[a] = "running"
    /\ \E output \in AgentRuns(a) :
        /\ outputs' = [n \in DOMAIN outputs \cup {a} |->
                          IF n = a THEN output ELSE outputs[n]]
        /\ all_conflicts' = all_conflicts \o output.conflicts
    /\ tasks' = [tasks EXCEPT ![a] = "done"]
    /\ status' = [status EXCEPT ![a] = "completed"]
    /\ UNCHANGED <<phase, run_pc, wave, new_conflicts, resolutions, result,
                   run_error, wave_errors>>
    /\ UNCHANGED <<resolved_conflicts, iteration>>
    /\ UNCHANGED <<registry_vars, not_run_vars, detections, given>>

\* a failure that cancels the tasks of the wave that have not finished
TaskFailCancelsSiblings(a) ==
    /\ run_pc = "gather"
    /\ tasks[a] = "running"
    /\ tasks' = [b \in agents |->
                    IF tasks[b] = "none" THEN "none"
                    ELSE IF tasks[b] = "done" THEN "done" ELSE "failed"]
    /\ status' = [status EXCEPT ![a] = "failed"]
    /\ wave_errors' = wave_errors \cup {a}
    /\ UNCHANGED <<phase, run_pc, wave, new_conflicts, resolutions, result,
                   run_error>>
    /\ UNCHANGED <<outputs, all_conflicts, resolved_conflicts, iteration>>
    /\ UNCHANGED <<registry_vars, not_run_vars, detections, given>>

\* agent.run raises (base_agent.py 317-320); gather keeps the exception as
\* the task's result (198, return_exceptions=True)
TaskFail(a) ==
    /\ run_pc = "gather"
    /\ tasks[a] = "running"
    /\ tasks' = [tasks EXCEPT ![a] = "failed"]
    /\ status' = [status EXCEPT ![a] = "failed"]
    /\ wave_errors' = wave_errors \cup {a}
    /\ UNCHANGED <<phase, run_pc, wave, new_conflicts, resolutions, result,
                   run_error>>
    /\ UNCHANGED <<outputs, all_conflicts, resolved_conflicts, iteration>>
    /\ UNCHANGED <<registry_vars, not_run_vars, detections, given>>

\* a join that returns as soon as one task of the wave has a result
WaveJoinFirstCompleted ==
    /\ run_pc = "gather"
    /\ \E a \in agents : tasks[a] \in {"done", "failed"}
    /\ tasks' = [a \in agents |-> "none"]
    /\ wave' = wave + 1
    /\ run_pc' = "waves"
    /\ UNCHANGED <<phase, status, new_conflicts, resolutions, result, run_error,
                   wave_errors>>
    /\ UNCHANGED <<outputs, all_conflicts, resolved_conflicts, iteration>>
    /\ UNCHANGED <<registry_vars, not_run_vars, detections, given>>

\* gather returns once every task has a result; run_parallel logs the
\* failures and returns (198-207)
WaveJoin ==
    /\ run_pc = "gather"
    /\ \A a \in agents : tasks[a] \in {"none", "done", "failed"}
    /\ tasks' = [a \in agents |-> "none"]
    /\ wave' = wave + 1
    /\ run_pc' = "waves"
    /\ UNCHANGED <<phase, status, new_conflicts, resolutions, result, run_error,
                   wave_errors>>
    /\ UNCHANGED <<outputs, all_conflicts, resolved_conflicts, iteration>>
    /\ UNCHANGED <<registry_vars, not_run_vars, detections, given>>

\* a loop entered when the last group has not been run
RunEnterLoopBeforeLastGroup ==
    /\ run_pc = "waves"
    /\ wave >= Len(order)
    /\ phase' = "conflict_resolution"
    /\ run_pc' = "loop"
    /\ UNCHANGED <<status, wave, tasks, new_conflicts, resolutions, result,
                   run_error, wave_errors>>
    /\ UNCHANGED <<outputs, all_conflicts, resolved_conflicts, iteration>>
    /\ UNCHANGED <<registry_vars, not_run_vars, detections, given>>

\* line 441 after the last group
RunEnterLoop ==
    /\ run_pc = "waves"
    /\ wave > Len(order)
    /\ phase' = "conflict_resolution"
    /\ run_pc' = "loop"
    /\ UNCHANGED <<status, wave, tasks, new_conflicts, resolutions, result,
                   run_error, wave_errors>>
    /\ UNCHANGED <<outputs, all_conflicts, resolved_conflicts, iteration>>
    /\ UNCHANGED <<registry_vars, not_run_vars, detections, given>>

\* lines 442-443: the loop condition is false
LoopExit ==
    /\ run_pc = "loop"
    /\ ~(iteration < max_iterations)
    /\ run_pc' = "integrate"
    /\ UNCHANGED <<phase, status, wave, tasks, new_conflicts, resolutions, result,
                   run_error, wave_errors>>
    /\ UNCHANGED <<outputs, all_conflicts, resolved_conflicts, iteration>>
    /\ UNCHANGED <<registry_vars, not_run_vars, detections, given>>

\* a detection whose conflict ids also depend on the pass that found them
LoopDetectPassIds ==
    /\ run_pc = "loop"
    /\ iteration < max_iterations
    /\ iteration' = iteration + 1
    /\ new_conflicts' =
          LET found == DetectConflicts(outputs)
              tag == IF iteration = 0 THEN "first" ELSE "later"
          IN [i \in 1..Len(found) |->
                 [found[i] EXCEPT !.id = Append(@, tag)]]
    /\ all_conflicts' = all_conflicts \o new_conflicts'
    /\ run_pc' = IF new_conflicts' = <<>> THEN "integrate" ELSE "resolve"
    /\ UNCHANGED <<phase, status, wave, tasks, resolutions, result, run_error,
                   wave_errors>>
    /\ UNCHANGED <<outputs, resolved_conflicts>>
    /\ detections' = Append(detections, [outputs |-> outputs,
                                          conflicts |-> new_conflicts'])
    /\ UNCHANGED <<registry_vars, not_run_vars, given>>

\* lines 443-454: one more iteration; detection, and the break when it
\* finds nothing
LoopDetect ==
    /\ run_pc = "loop"
    /\ iteration < max_iterations
    /\ iteration' = iteration + 1
    /\ new_conflicts' = DetectConflicts(outputs)
    /\ all_conflicts' = all_conflicts \o new_conflicts'
    /\ run_pc' = IF new_conflicts' = <<>> THEN "integrate" ELSE "resolve"
    /\ UNCHANGED <<phase, status, wave, tasks, resolutions, result, run_error,
                   wave_errors>>
    /\ UNCHANGED <<outputs, resolved_conflicts>>
    /\ detections' = Append(detections, [outputs |-> outputs,
                                          conflicts |-> new_conflicts'])
    /\ UNCHANGED <<registry_vars, not_run_vars, given>>

\* lines 443-447 when detect_conflicts raises an Exception
LoopDetectFail ==
    /\ run_pc = "loop"
    /\ iteration < max_iterations
    /\ iteration' = iteration + 1
    /\ UNCHANGED <<phase, status, wave, tasks, new_conflicts, resolutions,
                   wave_errors>>
    /\ UNCHANGED <<outputs, all_conflicts, resolved_conflicts>>
    /\ UNCHANGED <<registry_vars, not_run_vars, detections, given>>
    /\ RunFails("detection")

\* line 459, resolve_conflicts (300-316): the new conflicts are resolved
\* and the resolutions recorded
LoopResolve ==
    /\ run_pc = "resolve"
    /\ resolutions' = ResolveAllNoClient(new_conflicts)
    /\ resolved_conflicts' = resolved_conflicts \o resolutions'
    /\ run_pc' = "apply"
    /\ UNCHANGED <<phase, status, wave, tasks, new_conflicts, result, run_error,
                   wave_errors>>
    /\ UNCHANGED <<outputs, all_conflicts, iteration>>
    /\ UNCHANGED <<registry_vars, not_run_vars, detections, given>>

\* line 459 when resolve_conflicts raises an Exception: nothing is recorded
LoopResolveFail ==
    /\ run_pc = "resolve"
    /\ UNCHANGED <<phase, status, wave, tasks, new_conflicts, resolutions,
                   wave_errors>>
    /\ UNCHANGED <<outputs, all_conflicts, resolved_conflicts, iteration>>
    /\ UNCHANGED <<registry_vars, not_run_vars, detections, given>>
    /\ RunFails("resolution")

\* an application after which every agent whose data was patched is run
\* again
LoopApplyRerunsPatched ==
    /\ run_pc = "apply"
    /\ outputs' = ApplyResolutions(outputs, resolutions)
    /\ status' = [a \in DOMAIN status |->
                    IF a \in DOMAIN outputs /\ outputs'[a] # outputs[a]
                    THEN "analyzing" ELSE status[a]]
    /\ run_pc' = "check"
    /\ UNCHANGED <<phase, wave, tasks, new_conflicts, resolutions, result,
                   run_error, wave_errors>>
    /\ UNCHANGED <<all_conflicts, resolved_conflicts, iteration>>
    /\ UNCHANGED <<registry_vars, not_run_vars, detections, given>>

\* line 460, apply_resolutions (318-330)
LoopApply ==
    /\ run_pc = "apply"
    /\ outputs' = ApplyResolutions(outputs, resolutions)
    /\ run_pc' = "check"
    /\ UNCHANGED <<phase, status, wave, tasks, new_conflicts, resolutions, result,
                   run_error, wave_errors>>
    /\ UNCHANGED <<all_conflicts, resolved_conflicts, iteration>>
    /\ UNCHANGED <<registry_vars, not_run_vars, detections, given>>

\* line 460 when apply_resolutions raises an Exception after it has applied
\* the first k resolutions
LoopApplyFail ==
    /\ run_pc = "apply"
    /\ \E k \in 0..(Len(resolutions) - 1) :
        outputs' = ApplyResolutions(outputs, SubSeq(resolutions, 1, k))
    /\ UNCHANGED <<phase, status, wave, tasks, new_conflicts, resolutions,
                   wave_errors>>
    /\ UNCHANGED <<all_conflicts, resolved_conflicts, iteration>>
    /\ UNCHANGED <<registry_vars, not_run_vars, detections, given>>
    /\ RunFails("application")

\* the conflicts kept by lines 468-471
Unresolved(conflicts, rlist) ==
    LET resolved_ids == {rlist[i].conflict_id : i \in 1..Len(rlist)}
        Keep(c) == c.id \notin resolved_ids
    IN SelectSeq(conflicts, Keep)

\* a check after which the loop goes on although the design has converged
LoopCheckIgnoresConvergence ==
    /\ run_pc = "check"
    /\ run_pc' = "loop"
    /\ all_conflicts' = Unresolved(all_conflicts, resolutions)
    /\ UNCHANGED <<phase, status, wave, tasks, new_conflicts, resolutions, result,
                   run_error, wave_errors>>
    /\ UNCHANGED <<outputs, resolved_conflicts, iteration>>
    /\ UNCHANGED <<registry_vars, not_run_vars, detections, given>>

\* lines 462-471: the convergence check, then the reset for the next
\* iteration
LoopCheck ==
    /\ run_pc = "check"
    /\ IF CheckConvergence(iteration, all_conflicts, outputs,
                           convergence_threshold)
       THEN /\ run_pc' = "integrate"
            /\ UNCHANGED all_conflicts
       ELSE /\ run_pc' = "loop"
            /\ all_conflicts' = Unresolved(all_conflicts, resolutions)
    /\ UNCHANGED <<phase, status, wave, tasks, new_conflicts, resolutions, result,
                   run_error, wave_errors>>
    /\ UNCHANGED <<outputs, resolved_conflicts, iteration>>
    /\ UNCHANGED <<registry_vars, not_run_vars, detections, given>>

\* lines 473-476 up to the await of integrate_designs
RunIntegrate ==
    /\ run_pc = "integrate"
    /\ phase' = "integration"
    /\ run_pc' = "integrating"
    /\ UNCHANGED <<status, wave, tasks, new_conflicts, resolutions, result,
                   run_error, wave_errors>>
    /\ UNCHANGED <<outputs, all_conflicts, resolved_conflicts, iteration>>
    /\ UNCHANGED <<registry_vars, not_run_vars, detections, given>>

\* integrate_designs raises an Exception
IntegrateFail ==
    /\ run_pc = "integrating"
    /\ UNCHANGED <<phase, status, wave, tasks, new_conflicts, resolutions,
                   wave_errors>>
    /\ UNCHANGED <<outputs, all_conflicts, resolved_conflicts, iteration>>
    /\ UNCHANGED <<registry_vars, not_run_vars, detections, given>>
    /\ RunFails("integration")

\* a finalization that leaves the phase at INTEGRATION
RunFinalizeInIntegration ==
    /\ run_pc = "integrating"
    /\ phase' = phase
    /\ result' = SuccessResult(phase', iteration, outputs, resolved_conflicts,
                    all_conflicts,
                    IntegrateDesigns(outputs, all_conflicts, resolved_conflicts,
                                     iteration),
                    agents, convergence_threshold)
    /\ run_pc' = "returned"
    /\ UNCHANGED <<status, wave, tasks, new_conflicts, resolutions, run_error,
                   wave_errors>>
    /\ UNCHANGED <<outputs, all_conflicts, resolved_conflicts, iteration>>
    /\ UNCHANGED <<registry_vars, not_run_vars, detections, given>>

\* integrate_designs returns; lines 478-502
RunFinalize ==
    /\ run_pc = "integrating"
    /\ phase' = "finalization"
    /\ result' = SuccessResult(phase', iteration, outputs, resolved_conflicts,
                    all_conflicts,
                    IntegrateDesigns(outputs, all_conflicts, resolved_conflicts,
                                     iteration),
                    agents, convergence_threshold)
    /\ run_pc' = "returned"
    /\ UNCHANGED <<status, wave, tasks, new_conflicts, resolutions, run_error,
                   wave_errors>>
    /\ UNCHANGED <<outputs, all_conflicts, resolved_conflicts, iteration>>
    /\ UNCHANGED <<registry_vars, not_run_vars, detections, given>>

\* get_execution_order as called by run() (line 421): a pass of its loop
\* that finds ready agents
RunScheduleReady ==
    /\ run_pc = "order"
    /\ ScheduleReady

\* a pass of its loop that finds none
RunScheduleForced ==
    /\ run_pc = "order"
    /\ ScheduleForced

RunNext ==
    \/ RunScheduleReady
    \/ RunScheduleForced
    \/ RunEnterFoundation
    \/ FoundationSkip
    \/ FoundationFinish
    \/ FoundationFail
    \/ WaveSkip
    \/ WaveStart
    \/ \E a \in agents : TaskStart(a)
    \/ \E a \in agents : TaskFinish(a)
    \/ \E a \in agents : TaskFail(a)
    \/ WaveJoin
    \/ RunEnterLoop
    \/ LoopExit
    \/ LoopDetect
    \/ LoopDetectFail
    \/ LoopResolve
    \/ LoopResolveFail
    \/ LoopApply
    \/ LoopApplyFail
    \/ LoopCheck
    \/ RunIntegrate
    \/ IntegrateFail
    \/ RunFinalize

RunSpec == RunInit /\ [][RunNext]_vars

\* run() is straight-line code around awaits: as long as every awaited call
\* returns or raises, its next step is taken
FairRunSpec == RunSpec /\ WF_vars(RunNext)

(***************************************************************************)
(* BaseDesignAgent.run (base_agent.py 245-320), one step per awaited phase *)
(* method: analyze, design, validate, optimize                             *)
(***************************************************************************)

\* most issues validate reports
MaxIssues == 2

\* the phase methods in the order run() calls them
AgentPhases == <<"analyze", "design", "validate", "optimize">>

\* AgentStatus (20-29): the position of each status in the declaration
StatusRank(st) ==
    CASE st = "idle" -> 1
      [] st = "analyzing" -> 2
      [] st = "designing" -> 3
      [] st = "validating" -> 4
      [] st = "optimizing" -> 5
      [] st = "resolving_conflict" -> 6
      [] st = "completed" -> 7
      [] st = "failed" -> 8

others_vars == <<sched_vars, rs_vars, co_vars, cv_vars, mg_vars, run_vars>>

\* BaseDesignAgent.__init__ (147-177)
AgentInit ==
    /\ SchedIdle /\ RsIdle /\ CoIdle /\ CvIdle /\ MgIdle /\ RunIdle
    /\ ag_name \in AgentNames
    /\ ag_auto_optimize \in BOOLEAN
    /\ ag_status = "idle"
    /\ ag_pc = "created"
    /\ ag_called = <<>>
    /\ ag_decisions = <<>>
    /\ ag_conflicts = <<>>
    /\ ag_warnings = 0
    /\ ag_valid = "unknown"
    /\ ag_design = <<>>
    /\ ag_output = <<>>
    /\ ag_error = "none"

\* lines 256-263: run() is called and awaits analyze
AgentRunCall ==
    /\ ag_pc = "created"
    /\ ag_status' = "analyzing"
    /\ ag_pc' = "analyze"
    /\ ag_called' = Append(ag_called, "analyze")
    /\ UNCHANGED <<ag_name, ag_auto_optimize, ag_decisions, ag_conflicts,
                   ag_warnings, ag_valid, ag_design, ag_output, ag_error>>
    /\ UNCHANGED others_vars

\* lines 263-272: analyze returns, its decision is logged, design is awaited
AnalyzeReturns ==
    /\ ag_pc = "analyze"
    /\ ag_decisions' = Append(ag_decisions, 80)
    /\ ag_status' = "designing"
    /\ ag_pc' = "design"
    /\ ag_called' = Append(ag_called, "design")
    /\ UNCHANGED <<ag_name, ag_auto_optimize, ag_conflicts, ag_warnings,
                   ag_valid, ag_design, ag_output, ag_error>>
    /\ UNCHANGED others_vars

\* lines 272-281: design returns, having raised the conflicts it found; its
\* decision is logged, validate is awaited
DesignReturns ==
    /\ ag_pc = "design"
    /\ \E dd \in DesignChoices(ag_name), raised \in RaisedChoices(ag_name) :
          /\ ag_design' = dd
          /\ ag_conflicts' = raised
    /\ ag_decisions' = Append(ag_decisions, 80)
    /\ ag_status' = "validating"
    /\ ag_pc' = "validate"
    /\ ag_called' = Append(ag_called, "validate")
    /\ UNCHANGED <<ag_name, ag_auto_optimize, ag_warnings, ag_valid,
                   ag_output, ag_error>>
    /\ UNCHANGED others_vars

\* a validation after which optimize is awaited whatever validate returned
ValidateReturnsAlwaysOptimizes ==
    /\ ag_pc = "validate"
    /\ \E is_valid \in BOOLEAN, issues \in 0..MaxIssues :
          /\ ag_valid' = IF is_valid THEN "valid" ELSE "invalid"
          /\ ag_warnings' = IF is_valid THEN ag_warnings ELSE ag_warnings + issues
          /\ IF ag_auto_optimize
             THEN /\ ag_status' = "optimizing"
                  /\ ag_pc' = "optimize"
                  /\ ag_called' = Append(ag_called, "optimize")
                  /\ UNCHANGED ag_output
             ELSE /\ ag_status' = "completed"
                  /\ ag_pc' = "returned"
                  /\ ag_output' = AgentOutput(ag_name, ag_design, ag_decisions,
                                              ag_conflicts)
                  /\ UNCHANGED ag_called
    /\ UNCHANGED <<ag_name, ag_auto_optimize, ag_decisions, ag_conflicts,
                   ag_design, ag_error>>
    /\ UNCHANGED others_vars

\* lines 281-315: validate returns; its issues become warnings; optimize is
\* awaited when the design is valid and auto_optimize is set, otherwise the
\* output is returned
ValidateReturns ==
    /\ ag_pc = "validate"
    /\ \E is_valid \in BOOLEAN, issues \in 0..MaxIssues :
          /\ ag_valid' = IF is_valid THEN "valid" ELSE "invalid"
          /\ ag_warnings' = IF is_valid THEN ag_warnings ELSE ag_warnings + issues
          /\ IF is_valid /\ ag_auto_optimize
             THEN /\ ag_status' = "optimizing"
                  /\ ag_pc' = "optimize"
                  /\ ag_called' = Append(ag_called, "optimize")
                  /\ UNCHANGED ag_output
             ELSE /\ ag_status' = "completed"
                  /\ ag_pc' = "returned"
                  /\ ag_output' = AgentOutput(ag_name, ag_design, ag_decisions,
                                              ag_conflicts)
                  /\ UNCHANGED ag_called
    /\ UNCHANGED <<ag_name, ag_auto_optimize, ag_decisions, ag_conflicts,
                   ag_design, ag_error>>
    /\ UNCHANGED others_vars

\* lines 293-315: optimize returns the design, its decision is logged and
\* the output is returned
OptimizeReturns ==
    /\ ag_pc = "optimize"
    /\ \E dd \in DesignChoices(ag_name) : ag_design' = dd
    /\ ag_decisions' = Append(ag_decisions, 80)
    /\ ag_status' = "completed"
    /\ ag_pc' = "returned"
    /\ ag_output' = AgentOutput(ag_name, ag_design', ag_decisions', ag_conflicts)
    /\ UNCHANGED <<ag_name, ag_auto_optimize, ag_called, ag_conflicts,
                   ag_warnings, ag_valid, ag_error>>
    /\ UNCHANGED others_vars

\* a failing phase whose exception is swallowed: run() returns what it has
PhaseRaisesSwallowed(ph) ==
    /\ ag_pc = ph
    /\ ag_status' = "failed"
    /\ ag_error' = ph
    /\ ag_pc' = "returned"
    /\ ag_output' = AgentOutput(ag_name, Dict(EmptyMap), ag_decisions,
                                ag_conflicts)
    /\ UNCHANGED <<ag_name, ag_auto_optimize, ag_called, ag_decisions,
                   ag_conflicts, ag_warnings, ag_valid, ag_design>>
    /\ UNCHANGED others_vars

\* lines 317-320: the awaited phase method raises an Exception; the status
\* becomes FAILED and the exception is raised again
PhaseRaises(ph) ==
    /\ ag_pc = ph
    /\ ag_status' = "failed"
    /\ ag_error' = ph
    /\ ag_pc' = "raised"
    /\ UNCHANGED <<ag_name, ag_auto_optimize, ag_called, ag_decisions,
                   ag_conflicts, ag_warnings, ag_valid, ag_design, ag_output>>
    /\ UNCHANGED others_vars

AgentNext ==
    \/ AgentRunCall
    \/ AnalyzeReturns
    \/ DesignReturns
    \/ ValidateReturns
    \/ OptimizeReturns
    \/ \E i \in 1..Len(AgentPhases) : PhaseRaises(AgentPhases[i])

AgentSpec == AgentInit /\ [][AgentNext]_vars

(***************************************************************************)
(* Properties of the dependency scheduler                                  *)
(***************************************************************************)

\* index of the wave that holds agent n
WaveOf(n) == CHOOSE i \in 1..Len(order) : n \in order[i]

AllDepsRegistered == \A n \in agents : dependencies[n] \subseteq agents

\* no non-empty group of agents in which everyone waits for someone of the group
Acyclic ==
    \A S \in (SUBSET agents) \ {{}} : \E n \in S : dependencies[n] \cap S = {}

\* C1: when every declared dependency is registered and the graph is acyclic,
\* each scheduled agent sits in a wave strictly after the wave of every agent
\* it depends on.
C1_WaveAfterDependencies ==
    (AllDepsRegistered /\ Acyclic) =>
        \A n \in executed : \A d \in dependencies[n] :
            /\ d \in executed
            /\ WaveOf(d) < WaveOf(n)

\* a finished schedule of an acyclic three-agent graph with a two-level chain
C1_Witness ==
    /\ sched_pc = "done"
    /\ AllDepsRegistered /\ Acyclic
    /\ Cardinality(agents) = 3
    /\ \E a, b, c \in agents :
        /\ dependencies[a] = {}
        /\ dependencies[b] = {a}
        /\ dependencies[c] = {a, b}
        /\ WaveOf(a) = 1 /\ WaveOf(b) = 2 /\ WaveOf(c) = 3

\* two registered agents that depend on each other
MutualPair ==
    \E a, b \in agents : a # b /\ b \in dependencies[a] /\ a \in dependencies[b]

Covered(n) == \E i \in 1..Len(order) : n \in order[i]

\* C2: with two registered agents that depend on each other, scheduling
\* terminates, the returned waves hold both agents and a warning was logged.
C2_CycleTerminatesCoveredWarned ==
    MutualPair ~>
        (/\ sched_pc = "done"
         /\ \A a, b \in agents :
              (a # b /\ b \in dependencies[a] /\ a \in dependencies[b])
                  => (Covered(a) /\ Covered(b))
         /\ sched_warnings >= 1)

\* the schedule of exactly the pair A <-> B has returned
C2_Witness ==
    /\ sched_pc = "done"
    /\ Cardinality(agents) = 2
    /\ MutualPair
    /\ \A n \in agents : Covered(n)
    /\ Len(order) = 2
    /\ sched_warnings >= 1

(***************************************************************************)
(* Properties of the resolver                                              *)
(***************************************************************************)

\* C3: resolve_all returns exactly one Resolution per input conflict, carrying
\* that conflict's id: after k conflicts were processed there are k
\* resolutions, and at return every input id is the conflict_id of exactly one.
C3_OneResolutionPerConflict ==
    /\ rs_pc \in {"loop", "done"} => Len(rs_resolutions) = rs_next - 1
    /\ rs_pc = "done" =>
        /\ Len(rs_resolutions) = Len(rs_conflicts)
        /\ \A i \in 1..Len(rs_conflicts) :
              Cardinality({j \in 1..Len(rs_resolutions) :
                  rs_resolutions[j].conflict_id = rs_conflicts[i].id}) = 1

\* resolve_all returned for two conflicts, one of them resolved by the
\* catch-all DEFAULT and one by negotiation with a client
C3_Witness ==
    /\ rs_pc = "done"
    /\ Len(rs_conflicts) = 2
    /\ rs_llm
    /\ \E j \in 1..Len(rs_resolutions) : rs_resolutions[j].resolved_by = "default"
    /\ \E j \in 1..Len(rs_resolutions) :
          rs_resolutions[j].resolved_by = "llm_negotiation"

\* the input conflict a resolution answers
ConflictOf(r) == rs_conflicts[r.conflict_id]

\* C4: the returned resolutions are in descending priority of their conflicts,
\* and resolutions of equal-priority conflicts are in input order.
C4_PriorityOrderStable ==
    \A i, j \in 1..Len(rs_resolutions) : i < j =>
        LET wi == PRIORITY_WEIGHTS[ConflictOf(rs_resolutions[i]).priority]
            wj == PRIORITY_WEIGHTS[ConflictOf(rs_resolutions[j]).priority]
        IN /\ wi >= wj
           /\ wi = wj =>
                rs_resolutions[i].conflict_id < rs_resolutions[j].conflict_id

\* resolve_all returned after moving a later, higher conflict to the front
C4_Witness ==
    /\ rs_pc = "done"
    /\ Len(rs_resolutions) = 2
    /\ rs_resolutions[1].conflict_id = 2
    /\ rs_resolutions[2].conflict_id = 1

\* resolve_all returned two equal-priority conflicts in input order
C4_WitnessTie ==
    /\ rs_pc = "done"
    /\ Len(rs_resolutions) = 2
    /\ rs_conflicts[1].priority = rs_conflicts[2].priority
    /\ rs_resolutions[1].conflict_id = 1

(***************************************************************************)
(* Properties of the convergence predicate                                 *)
(***************************************************************************)

HasCriticalOrHigh ==
    \E i \in 1..Len(all_conflicts) :
        all_conflicts[i].priority \in {"CRITICAL", "HIGH"}

\* C6: whenever the accumulated conflict set is empty, check_convergence
\* returns true, whatever the iteration counter.
C6_EmptyMeansConverged ==
    (cv_called /\ all_conflicts = <<>>) => cv_result = TRUE

\* C7: whenever a CRITICAL or HIGH conflict is in the accumulated set,
\* check_convergence returns false.
C7_CriticalOrHighBlocks ==
    (cv_called /\ HasCriticalOrHigh) => cv_result = FALSE

\* check_convergence returned with a HIGH conflict left after two passes,
\* every latest confidence above the threshold
C7_Witness ==
    /\ cv_called
    /\ iteration >= 2
    /\ \E i \in 1..Len(all_conflicts) : all_conflicts[i].priority = "HIGH"
    /\ \A i \in 1..Len(all_conflicts) : all_conflicts[i].priority # "CRITICAL"
    /\ outputs # EmptyMap
    /\ \A n \in DOMAIN outputs : LastConfidence(outputs[n]) = 100
    /\ cv_result = FALSE

\* every output has a latest decision
AllHaveDecisions == \A n \in DOMAIN outputs : outputs[n].decisions # <<>>

\* the confidences of the latest decisions of the agents in S, added up
RECURSIVE TotalLatest(_)
TotalLatest(S) ==
    IF S = {} THEN 0
    ELSE LET n == CHOOSE x \in S : TRUE
             log == outputs[n].decisions
         IN log[Len(log)] + TotalLatest(S \ {n})

\* the average of the latest-decision confidences reaches the threshold:
\* their total is at least the threshold times the number of outputs
AverageLatestReaches ==
    /\ outputs # EmptyMap
    /\ TotalLatest(DOMAIN outputs) >=
          convergence_threshold * Cardinality(DOMAIN outputs)

\* C8: with conflicts left, none of them CRITICAL or HIGH, check_convergence
\* returns true exactly when at least 2 iterations have run and the average
\* confidence of the agents' latest decisions reaches the threshold.
C8_ConfidenceAndTwoIterations ==
    (cv_called /\ all_conflicts # <<>> /\ ~HasCriticalOrHigh /\ AllHaveDecisions)
        => (cv_result = TRUE <=> (iteration >= 2 /\ AverageLatestReaches))

\* check_convergence returned true with a MEDIUM conflict left
C8_Witness ==
    /\ cv_called
    /\ all_conflicts # <<>> /\ ~HasCriticalOrHigh /\ AllHaveDecisions
    /\ iteration >= 2
    /\ cv_result = TRUE

(***************************************************************************)
(* Properties of resolution application                                    *)
(***************************************************************************)

\* C10: applying the same Resolution a second time leaves every agent's design
\* data as the first application left it.
C10_ApplyTwiceIsApplyOnce ==
    Len(mg_trace) = 3 => mg_trace[3] = mg_trace[2]

\* a modify resolution was applied twice; its first application merged into
\* a nested dict of the design data and overwrote or added another key
C10_Witness ==
    /\ Len(mg_trace) = 3
    /\ mg_resolutions[1].resolution_type = "modify"
    /\ LET before == mg_trace[1]["architectural"].design_data.d
           after == mg_trace[2]["architectural"].design_data.d
           patch == mg_resolutions[1].changes.d
       IN /\ "architectural" \in DOMAIN patch
          /\ after # before
          /\ \E k \in DOMAIN before \cap DOMAIN patch["architectural"].d :
                /\ IsDict(before[k])
                /\ IsDict(patch["architectural"].d[k])
                /\ after[k] # before[k]
                /\ after[k] # patch["architectural"].d[k]


(***************************************************************************)
(* Properties of AgentCoordinator.run                                      *)
(***************************************************************************)

\* the phase run() is in when each kind of error is raised
PhaseOfError(message) ==
    CASE message = "foundation" -> "architectural"
      [] message \in {"detection", "resolution", "application"} ->
            "conflict_resolution"
      [] message = "integration" -> "integration"

\* C5 as stated: run() never raises, and any error -- a failed agent of a
\* wave included -- is returned as a result with success = false that
\* carries the message, the phase and what had accumulated.
C5_AnyErrorFailsTheRun ==
    /\ run_pc # "raised"
    /\ (run_pc = "returned" /\ (run_error # "none" \/ wave_errors # {})) =>
          /\ result.success = FALSE
          /\ "error" \in DOMAIN result.metrics
          /\ result.agent_outputs = outputs
          /\ result.resolved_conflicts = resolved_conflicts
          /\ result.unresolved_conflicts = all_conflicts

\* C5, amended: run() never raises an Exception; an error in the foundation
\* run, detection, resolution, application or integration is returned as a
\* result with success = false, the message in metrics.error, the phase the
\* error occurred in and the outputs, conflicts and resolutions accumulated
\* so far; a failed agent of a wave is left out of the outputs and does not
\* by itself make the run fail.
C5_NeverRaisesFailureReported ==
    /\ run_pc # "raised"
    /\ (run_pc = "returned" /\ run_error # "none") =>
          /\ result.success = FALSE
          /\ result.metrics = [error |-> run_error]
          /\ result.phase = PhaseOfError(run_error)
          /\ result.iterations = iteration
          /\ result.agent_outputs = outputs
          /\ result.resolved_conflicts = resolved_conflicts
          /\ result.unresolved_conflicts = all_conflicts
    /\ (run_pc = "returned" /\ run_error = "none") =>
          /\ result.success = TRUE
          /\ result.phase = "finalization"
          /\ wave_errors \cap DOMAIN result.agent_outputs = {}
    /\ run_pc \in {"resolve", "apply", "check", "integrating", "returned"} =>
          \A a \in wave_errors : status[a] = "failed" /\ a \notin DOMAIN outputs

\* an error while the resolutions are applied, after outputs were collected
\* and resolutions recorded
C5_Witness ==
    /\ run_pc = "returned"
    /\ run_error = "application"
    /\ result.success = FALSE
    /\ result.resolved_conflicts # <<>>
    /\ DOMAIN result.agent_outputs # {}

\* a wave agent failed and the run still returned success
C5_WitnessWave ==
    /\ run_pc = "returned"
    /\ wave_errors # {}
    /\ result.success = TRUE

\* the scenario of C9: two agents, the second depending on the first
TwoAgentChain ==
    /\ Cardinality(agents) = 2
    /\ \E a \in agents : \E b \in agents \ {a} :
          dependencies[a] = {} /\ dependencies[b] = {a}

\* C9 as stated: A without dependencies, B depending on A, no conflict
\* raised or detected: the waves are [[A],[B]], both agents are in the
\* outputs, iterations is 1 and convergence_achieved is true.
C9_TwoAgentChainConverges ==
    (/\ run_pc = "returned"
     /\ TwoAgentChain
     /\ max_iterations >= 1
     /\ run_error = "none" /\ wave_errors = {}
     /\ \A n \in DOMAIN outputs : outputs[n].conflicts = <<>>
     /\ result.unresolved_conflicts = <<>>
     /\ result.resolved_conflicts = <<>>)
    => /\ \E a \in agents : \E b \in agents \ {a} :
             /\ dependencies[b] = {a}
             /\ order = <<{a}, {b}>>
       /\ DOMAIN result.agent_outputs = agents
       /\ result.iterations = 1
       /\ result.metrics.convergence_achieved = TRUE

\* what the code does in the scenario of C9: everything but the metric
C9_ScenarioReached ==
    /\ run_pc = "returned"
    /\ TwoAgentChain
    /\ max_iterations >= 1
    /\ run_error = "none" /\ wave_errors = {}
    /\ \A n \in DOMAIN outputs : outputs[n].conflicts = <<>>
    /\ result.unresolved_conflicts = <<>>
    /\ result.resolved_conflicts = <<>>
    /\ DOMAIN result.agent_outputs = agents
    /\ result.iterations = 1
    /\ result.metrics.convergence_achieved = FALSE

(***************************************************************************)
(* Properties of detect_conflicts                                          *)
(***************************************************************************)

\* two detected conflicts are the same finding: the same rule fired on the
\* same elements of the same two agents
SameFinding(c, d) ==
    /\ c.type = d.type
    /\ c.source_agent = d.source_agent
    /\ c.target_agent = d.target_agent
    /\ c.affected_elements = d.affected_elements

Resolved == 1..Len(rs_resolutions)

\* the changes of r are a patch for agent `name` alone, under key `key`
ChangesAddress(r, name, key) ==
    /\ IsDict(r.changes)
    /\ DOMAIN r.changes.d = {name}
    /\ IsDict(r.changes.d[name])
    /\ DOMAIN r.changes.d[name].d = {key}

\* r was produced by a rule, without negotiation
RuleBased(r) == r.resolved_by = "conflict_resolver"

\* r was produced by _negotiate_resolution: by the client, or by the
\* hierarchy fallback
Negotiated(r) == r.resolved_by \in {"llm_negotiation", "hierarchy_resolution"}

C14_WitnessReroute ==
    /\ rs_pc = "done"
    /\ Len(rs_resolutions) = 1
    /\ ConflictOf(rs_resolutions[1]).type = "mep_clearance"
    /\ ConflictOf(rs_resolutions[1]).priority = "HIGH"
    /\ rs_resolutions[1].resolution_type = "relocate"

\* C15: a conflict that matches no strategy is resolved by the DEFAULT
\* resolution: accept, resolved by "default", confidence 0.50, no changes.
C15_UnmatchedGetsDefault ==
    \A j \in Resolved :
        LET r == rs_resolutions[j]
            c == ConflictOf(r)
        IN FindStrategy(c) = NoStrategy =>
            /\ r.resolved_by = "default"
            /\ r.resolution_type = "accept"
            /\ r.confidence = 50
            /\ r.changes = Dict(EmptyMap)

\* what the code does with a FUNCTIONAL conflict when no client is present:
\* the hierarchy fallback modifies the lower-ranked agent
C15_UnmatchedNegotiated ==
    /\ rs_pc = "done"
    /\ ~rs_llm
    /\ Len(rs_resolutions) = 1
    /\ ConflictOf(rs_resolutions[1]).type = "functional"
    /\ rs_resolutions[1].resolved_by = "hierarchy_resolution"
    /\ rs_resolutions[1].resolution_type = "modify"
    /\ rs_resolutions[1].confidence = 70

\* the agent of conflict c with the lower hierarchy rank, and the other one
LowerRanked(c) ==
    IF AGENT_HIERARCHY(c.source_agent) < AGENT_HIERARCHY(c.target_agent)
    THEN c.source_agent ELSE c.target_agent

HigherRanked(c) ==
    IF AGENT_HIERARCHY(c.source_agent) < AGENT_HIERARCHY(c.target_agent)
    THEN c.target_agent ELSE c.source_agent

\* C16: with no negotiation client, a SPATIAL conflict between two agents of
\* different rank is resolved by the hierarchy fallback with confidence 0.70;
\* the winner is the agent with the lower rank and the changes are addressed
\* to the other agent.
C16_SpatialHierarchyFallback ==
    \A j \in Resolved :
        LET r == rs_resolutions[j]
            c == ConflictOf(r)
        IN (/\ c.type = "spatial"
            /\ ~rs_llm
            /\ AGENT_HIERARCHY(c.source_agent) # AGENT_HIERARCHY(c.target_agent))
           => /\ r.resolved_by = "hierarchy_resolution"
              /\ r.resolution_type = "modify"
              /\ r.confidence = 70
              /\ AGENT_HIERARCHY(LowerRanked(c)) < AGENT_HIERARCHY(HigherRanked(c))
              /\ ChangesAddress(r, HigherRanked(c), "adaptations")
              /\ r.changes.d[HigherRanked(c)].d["adaptations"].s[2] =
                    LowerRanked(c)

\* resolve_all returned, without a client, for a SPATIAL conflict raised by
\* architectural against structural: the target wins and the source adapts
C16_Witness ==
    /\ rs_pc = "done"
    /\ ~rs_llm
    /\ Len(rs_resolutions) = 1
    /\ ConflictOf(rs_resolutions[1]).type = "spatial"
    /\ ConflictOf(rs_resolutions[1]).source_agent = "architectural"
    /\ ConflictOf(rs_resolutions[1]).target_agent = "structural"
    /\ ChangesAddress(rs_resolutions[1], "architectural", "adaptations")
    /\ rs_resolutions[1].confidence = 70

\* the client was called in pass j and raised, or answered with text that
\* is not a JSON object
ClientFailed(j) == rs_calls[j] \in {"error", "malformed", "nondict"}

\* C17: when the negotiation client is present and its call raises or its
\* response is malformed, the conflict is resolved in the same pass by the
\* hierarchy fallback, and resolve_all goes on with the next conflict.
C17_ClientFailureFallsBack ==
    /\ Len(rs_calls) = Len(rs_resolutions)
    /\ rs_pc \in {"loop", "done"} => Len(rs_calls) = rs_next - 1
    /\ \A j \in 1..Len(rs_calls) :
          ClientFailed(j) =>
              /\ rs_llm
              /\ rs_resolutions[j].conflict_id = rs_sorted[j].id
              /\ rs_resolutions[j].resolved_by = "hierarchy_resolution"
              /\ rs_resolutions[j].resolution_type = "modify"
              /\ rs_resolutions[j].confidence = 70
              /\ ChangesAddress(rs_resolutions[j], HigherRanked(rs_sorted[j]),
                                "adaptations")

\* resolve_all returned after the client raised for the first conflict and
\* answered the second
C17_Witness ==
    /\ rs_pc = "done"
    /\ rs_calls = <<"error", "object">>
    /\ rs_resolutions[1].resolved_by = "hierarchy_resolution"
    /\ rs_resolutions[2].resolved_by = "llm_negotiation"

(***************************************************************************)
(* Properties of the waves of run()                                        *)
(***************************************************************************)

\* wave w has been run and joined
WaveOver(w) == run_pc \notin {"order", "foundation"} /\ wave > w

\* agent a has reached its own outcome: it returned and its output is
\* recorded, or it raised and has no output
OwnOutcome(a) ==
    \/ /\ status[a] = "completed"
       /\ a \in DOMAIN outputs
       /\ a \notin wave_errors
    \/ /\ status[a] = "failed"
       /\ a \notin DOMAIN outputs
       /\ a \in wave_errors

\* C18: a failure of an agent inside a wave is caught; the other agents of
\* the wave still run to their own outcome; when the wave is over the outputs
\* hold every agent of the wave that succeeded and not the one that failed.
C18_WaveFailureIsolated ==
    /\ run_pc # "raised"
    /\ run_pc = "gather" =>
          \A a \in GroupOf(wave) :
              CASE tasks[a] = "pending" -> status[a] = "idle"
                [] tasks[a] = "running" -> status[a] = "analyzing"
                [] tasks[a] \in {"done", "failed"} -> OwnOutcome(a)
                [] OTHER -> FALSE
    /\ \A w \in 1..Len(order) :
          WaveOver(w) => \A a \in GroupOf(w) : OwnOutcome(a)

\* structural failed and mep, in the same wave, completed; the wave is over
\* and the outputs hold mep and not structural
C18_Witness ==
    /\ WaveOver(2)
    /\ order[2] = {"structural", "mep"}
    /\ status["structural"] = "failed"
    /\ status["mep"] = "completed"
    /\ "mep" \in DOMAIN outputs
    /\ "structural" \notin DOMAIN outputs

\* agent a was run: its agent.run was called and has returned or raised
WasRun(a) == status[a] \in {"completed", "failed"}

\* the agents whose run failed
FailedAgents == {a \in agents : status[a] = "failed"}

C19_WitnessFoundation ==
    /\ run_pc = "returned"
    /\ run_error = "foundation"
    /\ Cardinality(agents) = 3
    /\ \A b \in agents \ {"architectural"} : status[b] = "idle"

\* agent a has started: its agent.run has been called
Started(a) == status[a] # "idle"

\* C20: whatever the interleaving of the agents of a wave, no agent of a
\* later wave has started while an agent of an earlier wave has neither
\* completed nor failed.
C20_WaveBarrier ==
    \A w \in 1..Len(order) : \A v \in 1..(w - 1) :
        \A a \in GroupOf(w) : \A b \in GroupOf(v) :
            Started(a) => WasRun(b)

\* interior, the later wave, is running after the two agents of the wave
\* before it ended differently: one completed, one failed
C20_Witness ==
    /\ run_pc = "gather"
    /\ Len(order) = 2
    /\ order[1] = {"structural", "mep"}
    /\ order[2] = {"interior"}
    /\ status["interior"] = "analyzing"
    /\ status["structural"] = "failed"
    /\ status["mep"] = "completed"

(***************************************************************************)
(* Properties of the phases and the loop of run()                          *)
(***************************************************************************)

\* run() is inside its conflict-resolution loop, or has just left it
InLoop == run_pc \in {"loop", "resolve", "apply", "check", "integrate"}

\* C21: the phase only moves forward through INITIALIZATION, ARCHITECTURAL,
\* PARALLEL_ANALYSIS, CONFLICT_RESOLUTION, INTEGRATION, FINALIZATION; it is
\* CONFLICT_RESOLUTION across all loop passes; a successful result reports
\* FINALIZATION.
C21_PhaseForwardOnly ==
    /\ [][PhaseRank(phase') >= PhaseRank(phase)]_vars
    /\ [](phase # "refinement")
    /\ [](InLoop => phase = "conflict_resolution")
    /\ []((run_pc = "returned" /\ run_error = "none") =>
              /\ result.success = TRUE
              /\ result.phase = "finalization"
              /\ phase = "finalization")

\* a successful run that went through three loop passes
C21_Witness ==
    /\ run_pc = "returned"
    /\ run_error = "none"
    /\ iteration >= 3
    /\ phase = "finalization"


(***************************************************************************)
(* C22: within a call of run() an agent's status follows                   *)
(* Idle -> Analyzing -> Designing -> Validating -> [Optimizing] ->         *)
(* Completed, or goes to Failed from an active phase; it never moves       *)
(* backward, Optimizing is entered only when validation reported valid and *)
(* auto-optimize is enabled, and a Failed status never changes again.      *)
(***************************************************************************)
ActiveStatuses == {"analyzing", "designing", "validating", "optimizing"}

StatusSteps ==
    {<<"idle", "analyzing">>, <<"analyzing", "designing">>,
     <<"designing", "validating">>, <<"validating", "optimizing">>,
     <<"validating", "completed">>, <<"optimizing", "completed">>}
    \cup {<<st, "failed">> : st \in ActiveStatuses}

C22_StatusMachine ==
    /\ [][/\ ag_status' # ag_status => <<ag_status, ag_status'>> \in StatusSteps
          /\ StatusRank(ag_status') >= StatusRank(ag_status)
          /\ ag_status = "failed" => ag_status' = "failed"]_vars
    /\ [](ag_status = "optimizing" => ag_valid = "valid" /\ ag_auto_optimize)
    /\ [](ag_status = "completed" /\ ag_valid = "valid" /\ ag_auto_optimize
            => ag_called = AgentPhases)

\* an agent that passed through every status up to Optimizing and then failed
C22_Witness ==
    /\ ag_status = "failed"
    /\ ag_error = "optimize"
    /\ ag_called = AgentPhases
    /\ ag_valid = "valid"
    /\ ag_auto_optimize

(***************************************************************************)
(* C30: when analyze, design, validate or optimize raises, the run is      *)
(* aborted: no AgentOutput is produced, the later phases are not called,   *)
(* the status is FAILED, and the error leaves run() (nothing follows).     *)
(***************************************************************************)
C30_PhaseErrorAborts ==
    /\ [](ag_error # "none" =>
            /\ ag_pc = "raised"
            /\ ag_status = "failed"
            /\ ag_output = <<>>
            /\ ag_called # <<>>
            /\ ag_called[Len(ag_called)] = ag_error
            /\ \A i \in 1..Len(ag_called) : ag_called[i] = AgentPhases[i])
    /\ [][ag_pc = "raised" => UNCHANGED ag_vars]_vars

\* validate raised: design had produced data, optimize was never called
C30_Witness ==
    /\ ag_error = "validate"
    /\ ag_pc = "raised"
    /\ ag_called = <<"analyze", "design", "validate">>
    /\ ag_design # <<>>
    /\ ag_output = <<>>


(***************************************************************************)
(* C23: after a pass in which a conflict was resolved and its Resolution   *)
(* applied, that conflict is absent from the accumulated conflict set of   *)
(* the next pass (the set the next pass holds once it has detected).       *)
(***************************************************************************)
ConflictIds(conflicts) == {conflicts[i].id : i \in 1..Len(conflicts)}

ResolvedIds(rlist) == {rlist[i].conflict_id : i \in 1..Len(rlist)}

\* the resolutions of the pass before, which apply_resolutions merged
AppliedIds(rlist) ==
    {rlist[i].conflict_id :
        i \in {j \in 1..Len(rlist) : rlist[j].resolution_type = "modify"}}

\* a later pass has detected and not yet resolved: resolutions still holds
\* the list of the pass before
NextPassDetected == run_pc = "resolve" /\ iteration >= 2

C23_ResolvedAbsentNextPass ==
    NextPassDetected => ConflictIds(all_conflicts) \cap AppliedIds(resolutions) = {}


(***************************************************************************)
(* C24: the conflict-resolution loop performs at most max_iterations       *)
(* passes (the counter grows by one per pass and never exceeds             *)
(* max_iterations); it ends exactly when a pass detects no conflict, or    *)
(* the design has converged, or the cap is reached; and, every awaited     *)
(* call returning or raising, run() then reaches INTEGRATION (a raised     *)
(* exception ends run() with the failure result instead).                  *)
(***************************************************************************)
InPass == run_pc \in {"loop", "resolve", "apply", "check"}

Converged ==
    CheckConvergence(iteration, all_conflicts, outputs, convergence_threshold)

RECURSIVE MergeEvery(_, _)
MergeEvery(outs, rlist) ==
    IF rlist = <<>> THEN outs
    ELSE MergeEvery(ApplyChanges(outs, Head(rlist).changes), Tail(rlist))

C25_EveryResolutionApplied ==
    [][(run_pc = "apply" /\ run_pc' = "check") =>
            outputs' = MergeEvery(outputs, resolutions)]_vars


(***************************************************************************)
(* C26: in each conflict-resolution pass the resolver is invoked on the    *)
(* full accumulated conflict set: the conflicts detected in this pass      *)
(* together with those the agents raised in their outputs and those left   *)
(* unresolved by earlier passes.                                           *)
(***************************************************************************)
C26_ResolverGetsAccumulatedSet ==
    [][(run_pc = "resolve" /\ run_pc' = "apply") =>
            resolutions' = ResolveAllNoClient(all_conflicts)]_vars


(***************************************************************************)
(* C27: at every point of a run the accumulated resolution list holds at   *)
(* most one Resolution per conflict id, over any number of loop passes.    *)
(***************************************************************************)
C27_OneResolutionPerConflict ==
    \A i, j \in 1..Len(resolved_conflicts) :
        resolved_conflicts[i].conflict_id = resolved_conflicts[j].conflict_id
            => i = j


(***************************************************************************)
(* C28: every Resolution the resolver produces, including one built from a *)
(* negotiation response, has resolution_type in {modify, relocate, accept, *)
(* reject}, a changes value that is a map from agent id to patch, and a    *)
(* confidence in [0, 1].                                                   *)
(***************************************************************************)
ResolutionTypes == {"modify", "relocate", "accept", "reject"}

WellFormedResolution(r) ==
    /\ r.resolution_type \in ResolutionTypes
    /\ IsDict(r.changes)
    /\ r.confidence \in 0..100

C28_ResolutionsWellFormed ==
    \A i \in 1..Len(rs_resolutions) : WellFormedResolution(rs_resolutions[i])


(***************************************************************************)
(* C29: when the foundation agent (architectural) is registered it runs    *)
(* alone first: no other agent starts before its run has finished, and it  *)
(* is run exactly once in a run() -- not again when its wave is reached.   *)
(***************************************************************************)
Foundation == "architectural"

\* while the foundation agent has not completed nothing else has started,
\* and the foundation agent is never a task of a wave
FoundationFirst ==
    /\ \A a \in agents \ {Foundation} :
            Started(a) => status[Foundation] = "completed"
    /\ tasks[Foundation] = "none"
    /\ (run_pc \in {"idle", "order", "foundation"}
            => DOMAIN outputs \subseteq {Foundation})

\* the foundation agent is started from the ARCHITECTURAL step only, and
\* once it was run neither its status nor its output changes by a new run
FoundationOnce ==
    /\ ((status[Foundation] # "analyzing" /\ status'[Foundation] = "analyzing")
            => (status[Foundation] = "idle" /\ run_pc = "order"))
    /\ (Foundation \in DOMAIN outputs
            => outputs'[Foundation].decisions = outputs[Foundation].decisions)
    /\ (WasRun(Foundation) => status'[Foundation] = status[Foundation])

C29_FoundationAloneOnce ==
    /\ [](Foundation \in agents => FoundationFirst)
    /\ [][(Foundation \in agents) => FoundationOnce]_vars

\* the group of the foundation agent is reached after its run: the other
\* agent of that group is running, the foundation agent is not run again
C29_Witness ==
    /\ Foundation \in agents
    /\ run_pc = "gather"
    /\ Foundation \in order[wave]
    /\ \E a \in GroupOf(wave) : tasks[a] = "running"
    /\ status[Foundation] = "completed"
    /\ tasks[Foundation] = "none"


(***************************************************************************)
(* C31: a detection rule is skipped without error when the output of       *)
(* either domain it refers to is absent: detect_conflicts returns no       *)
(* conflict for a pair of domains unless both have an output.              *)
(***************************************************************************)
\* the two domains a detected conflict is between
DomainsOf(c) == {c.source_agent, c.target_agent}

C31_RuleNeedsBothOutputs ==
    \A i \in 1..Len(detections) :
        LET d == detections[i]
        IN /\ \A j \in 1..Len(d.conflicts) :
                DomainsOf(d.conflicts[j]) \subseteq DOMAIN d.outputs
           /\ ("structural" \notin DOMAIN d.outputs => d.conflicts = <<>>)
           /\ ({"architectural", "mep"} \cap DOMAIN d.outputs = {}
                    => d.conflicts = <<>>)

\* structural failed in its wave: mep's low duct has no beam to be checked
\* against, the duct rule is skipped and the pass goes on
C31_Witness ==
    /\ run_error = "none"
    /\ \E i \in 1..Len(detections) :
        LET d == detections[i]
        IN /\ "structural" \in agents
           /\ "structural" \notin DOMAIN d.outputs
           /\ "mep" \in DOMAIN d.outputs
           /\ GetList(d.outputs["mep"].design_data, "ductwork") = <<"duct_low">>
           /\ d.conflicts = <<>>


(***************************************************************************)
(* C32: every Conflict in the accumulated conflict set, whether detected   *)
(* by the coordinator or raised by an agent through add_conflict, has      *)
(* source_agent different from target_agent.                               *)
(***************************************************************************)
TwoParties(conflicts) ==
    \A i \in 1..Len(conflicts) :
        conflicts[i].source_agent # conflicts[i].target_agent

C32_SourceDiffersFromTarget ==
    /\ TwoParties(all_conflicts)
    /\ TwoParties(new_conflicts)
    /\ \A a \in DOMAIN outputs : TwoParties(outputs[a].conflicts)

\* the accumulated set holds a conflict an agent raised and one the
\* coordinator detected
C32_Witness ==
    /\ \E i \in 1..Len(all_conflicts) :
            all_conflicts[i].id[1] \in {"conflict_structural", "conflict_mep"}
    /\ \E i \in 1..Len(all_conflicts) :
            all_conflicts[i].id[1] \in {"spatial_col", "mep_struct"}


(***************************************************************************)
(* C33: the dependency data an agent receives is a frozen snapshot, not a  *)
(* live reference: a later patch to the dependency's recorded output does  *)
(* not change what the agent was given (and a change made through what the *)
(* agent was given does not change the recorded output).                   *)
(***************************************************************************)
C33_DependencyDataFrozen ==
    \A a \in DOMAIN given : \A dep \in DOMAIN given[a] :
        HeldDependencyData(a, dep) = given[a][dep]


(***************************************************************************)
(* C34: during the CONFLICT_RESOLUTION phase no agent is re-invoked: no    *)
(* agent's run (or phase method) is called and no agent's status changes;  *)
(* resolution affects an agent only through patches to its recorded        *)
(* design data.                                                            *)
(***************************************************************************)
\* everything of a recorded output but its design data
OutputFrame(o) ==
    [agent_name |-> o.agent_name, status |-> o.status,
     decisions |-> o.decisions, conflicts |-> o.conflicts]

NoAgentInvoked ==
    /\ status' = status
    /\ tasks' = tasks
    /\ given' = given
    /\ DOMAIN outputs' = DOMAIN outputs
    /\ \A a \in DOMAIN outputs : OutputFrame(outputs'[a]) = OutputFrame(outputs[a])

C34_NoAgentReinvoked ==
    [][phase = "conflict_resolution" => NoAgentInvoked]_vars

\* a pass has patched the design data of an agent whose status is still
\* the one its run left
C34_Witness ==
    /\ phase = "conflict_resolution"
    /\ run_pc = "check"
    /\ Len(detections) >= 1
    /\ \E a \in DOMAIN outputs :
        /\ outputs[a].design_data # detections[1].outputs[a].design_data
        /\ status[a] = "completed"


(***************************************************************************)
(* C35: for every registry and every dependency declaration (cycles,       *)
(* self-dependencies and dependencies on unregistered agents included) the *)
(* waves of get_execution_order partition the registered agents: each      *)
(* agent is in exactly one wave, no wave is empty, a forced wave holds     *)
(* exactly one agent, and an empty registry gives an empty wave list.      *)
(***************************************************************************)
WavesHolding(n) == {i \in 1..Len(order) : n \in order[i]}

C35_WavesPartitionAgents ==
    /\ \A i \in 1..Len(order) : order[i] # {} /\ order[i] \subseteq agents
    /\ \A n \in agents :
        Cardinality(WavesHolding(n)) = (IF n \in remaining THEN 0 ELSE 1)
    /\ \A i \in forced : i \in 1..Len(order) /\ Cardinality(order[i]) = 1
    /\ sched_pc = "done" => remaining = {}
    /\ agents = {} => (order = <<>> /\ sched_pc = "done")

\* a returned order for three agents, one depending on itself and one on an
\* agent that is not registered, with a forced wave
C35_Witness ==
    /\ sched_pc = "done"
    /\ run_pc = "idle"
    /\ Cardinality(agents) = 3
    /\ \E a \in agents : a \in dependencies[a]
    /\ \E b \in agents : ~(dependencies[b] \subseteq agents)
    /\ forced # {}
    /\ \A n \in agents : Cardinality(WavesHolding(n)) = 1


(***************************************************************************)
(* C36: in a run() that reaches CONFLICT_RESOLUTION every registered agent *)
(* has been run exactly once, whatever failures occurred in waves; when no *)
(* agent fails, every registered agent is present in the result's          *)
(* agent_outputs and in final_design.components.                           *)
(***************************************************************************)
ReachedResolution == PhaseRank(phase) >= PhaseRank("conflict_resolution")

\* agent a's run is called by this step
RunCalled(a) == a \notin DOMAIN given /\ a \in DOMAIN given'

C36_EveryAgentRunOnce ==
    /\ [](ReachedResolution =>
            \A a \in agents : WasRun(a) /\ a \in DOMAIN given)
    /\ [][\A a \in agents :
            /\ (a \in DOMAIN given => a \in DOMAIN given')
            /\ ((status[a] # "analyzing" /\ status'[a] = "analyzing")
                    => RunCalled(a))]_vars
    /\ []((run_pc = "returned" /\ run_error = "none" /\ FailedAgents = {}) =>
            /\ DOMAIN result.agent_outputs = agents
            /\ DOMAIN result.final_design.components = agents)

\* a run of three agents returned after one of them failed in its wave: all
\* three were run, two are in the result
C36_Witness ==
    /\ run_pc = "returned"
    /\ run_error = "none"
    /\ Cardinality(agents) = 3
    /\ Cardinality(FailedAgents) = 1
    /\ DOMAIN given = agents
    /\ Cardinality(DOMAIN result.agent_outputs) = 2

\* a run of three agents returned with no failure and all three in the result
C36_WitnessAll ==
    /\ run_pc = "returned"
    /\ run_error = "none"
    /\ Cardinality(agents) = 3
    /\ FailedAgents = {}
    /\ DOMAIN result.final_design.components = agents


(***************************************************************************)
(* C37: at every point of a run where no agent is mid-run, an agent is     *)
(* present in the coordinator's outputs map if and only if its status is   *)
(* COMPLETED; an agent whose run failed has status FAILED and is absent,   *)
(* and an agent not yet run has status IDLE and is absent.                 *)
(***************************************************************************)
\* agent a's run was called and has neither returned nor raised
MidRun(a) ==
    \/ a \in DOMAIN tasks /\ tasks[a] = "running"
    \/ a = "architectural" /\ run_pc = "foundation"

\* agent a's run raised
RunRaised(a) ==
    \/ a \in wave_errors
    \/ a = "architectural" /\ run_error = "foundation"

C37_OutputsMatchStatus ==
    (\A b \in agents : ~MidRun(b)) =>
        \A a \in agents :
            /\ (a \in DOMAIN outputs) <=> (status[a] = "completed")
            /\ RunRaised(a) => (status[a] = "failed" /\ a \notin DOMAIN outputs)
            /\ (a \notin DOMAIN given) =>
                    (status[a] = "idle" /\ a \notin DOMAIN outputs)
            /\ status[a] \in {"idle", "completed", "failed"}

\* between two waves: one agent completed, one failed, one not yet run
C37_Witness ==
    /\ \A b \in agents : ~MidRun(b)
    /\ \E a, b, c \in agents :
        /\ status[a] = "completed" /\ a \in DOMAIN outputs
        /\ status[b] = "failed" /\ b \in wave_errors
        /\ status[c] = "idle" /\ c \notin DOMAIN given


(***************************************************************************)
(* C38: in every CoordinationResult no conflict listed in                  *)
(* unresolved_conflicts has an id that is the conflict_id of a Resolution  *)
(* in resolved_conflicts, on every exit path of the loop (no conflict      *)
(* detected, convergence, iteration cap).                                  *)
(***************************************************************************)
C38_UnresolvedExcludesResolved ==
    (run_pc = "returned" /\ run_error = "none") =>
        ConflictIds(result.unresolved_conflicts)
            \cap ResolvedIds(result.resolved_conflicts) = {}


(***************************************************************************)
(* C39: apply_resolutions changes only the design data of agents that are  *)
(* named in a Resolution's changes and have an output: the outputs of all  *)
(* other agents, the accumulated conflict set, the resolution list and the *)
(* iteration counter are unchanged, and a changes entry naming an agent    *)
(* with no output is ignored without error.                                *)
(***************************************************************************)
\* the agents named in the changes of the resolutions
NamedIn(rlist) ==
    UNION {DOMAIN rlist[i].changes.d :
              i \in {j \in 1..Len(rlist) : IsDict(rlist[j].changes)}}

ApplyFrame(rlist) ==
    /\ DOMAIN outputs' = DOMAIN outputs
    /\ \A a \in DOMAIN outputs :
        /\ OutputFrame(outputs'[a]) = OutputFrame(outputs[a])
        /\ a \notin NamedIn(rlist) => outputs'[a] = outputs[a]
    /\ UNCHANGED <<all_conflicts, resolved_conflicts, iteration>>

C39_ApplyChangesOnlyNamed ==
    [][mg_trace' # mg_trace => ApplyFrame(mg_resolutions)]_vars

\* a modify resolution naming architectural was applied: architectural's
\* design data changed, mep's output is as it was
C39_Witness ==
    /\ Len(mg_trace) >= 2
    /\ mg_resolutions[1].resolution_type = "modify"
    /\ "architectural" \in NamedIn(mg_resolutions)
    /\ mg_trace[2]["architectural"] # mg_trace[1]["architectural"]
    /\ mg_trace[2]["mep"] = mg_trace[1]["mep"]

\* a modify resolution naming structural, which has no output, was applied
\* and nothing changed
C39_WitnessNoOutput ==
    /\ Len(mg_trace) >= 2
    /\ mg_resolutions[1].resolution_type = "modify"
    /\ NamedIn(mg_resolutions) = {"structural"}
    /\ "structural" \notin DOMAIN outputs
    /\ mg_trace[2] = mg_trace[1]


(***************************************************************************)
(* C40: under every interleaving of the agents launched concurrently in    *)
(* one wave no update is lost: after the wave's barrier the outputs map    *)
(* holds the output of every agent of the wave that succeeded under its    *)
(* own name, outputs recorded by earlier waves are still present, and the  *)
(* accumulated conflict set contains each conflict raised by each          *)
(* successful agent exactly once.                                          *)
(***************************************************************************)
\* the agents are being run: the conflict loop has not begun
RunningAgents == run_pc \in {"foundation", "waves", "gather"}

\* how often conflict c occurs in the accumulated set
Occurrences(c) ==
    Cardinality({i \in 1..Len(all_conflicts) : all_conflicts[i] = c})

\* the conflicts raised in the recorded outputs
RaisedInOutputs ==
    UNION {{outputs[a].conflicts[i] : i \in 1..Len(outputs[a].conflicts)} :
              a \in DOMAIN outputs}

NoUpdateLost ==
    /\ \A a \in agents :
        (status[a] = "completed" \/ (a \in DOMAIN tasks /\ tasks[a] = "done")) =>
            (a \in DOMAIN outputs /\ outputs[a].agent_name = a)
    /\ \A c \in RaisedInOutputs : Occurrences(c) = 1
    /\ Len(all_conflicts) = Cardinality(RaisedInOutputs)

C40_NoLostUpdateInWave ==
    /\ [](RunningAgents => NoUpdateLost)
    /\ [][RunningAgents =>
            \A a \in DOMAIN outputs :
                a \in DOMAIN outputs' /\ outputs'[a] = outputs[a]]_vars

\* past the barrier of a wave of two agents that both succeeded and both
\* raised a conflict, with the output of the earlier foundation run
C40_Witness ==
    /\ run_pc = "waves"
    /\ wave >= 2
    /\ GroupOf(wave - 1) = {"structural", "mep"}
    /\ status["structural"] = "completed" /\ status["mep"] = "completed"
    /\ DOMAIN outputs = {"architectural", "structural", "mep"}
    /\ Len(outputs["structural"].conflicts) = 1
    /\ Len(outputs["mep"].conflicts) = 1
    /\ Len(all_conflicts) = 2

====
